---- MODULE Spec2Model ----
(***************************************************************************)
(* ownarr: ownership and permission enforcement over directory trees.      *)
(*                                                                         *)
(* The repository holds three generations of the program:                  *)
(*   - the Enforcer (internal/enforcer): one polling goroutine per folder, *)
(*     enforceTree / enforceFile, Start / Stop;                            *)
(*   - the Watcher and the Processor (internal/watcher,                    *)
(*     internal/processor): fsnotify events and polling events through a   *)
(*     bounded channel to one consumer;                                    *)
(*   - the single-file program (main.go): watchFolder with an event loop   *)
(*     and a polling goroutine.                                            *)
(* Each has its own specification below; they share the file system.       *)
(***************************************************************************)
EXTENDS Naturals, Integers, Sequences, FiniteSets, TLC

VARIABLES
    call,       \* the pending call of a pure function and its result
    fs,         \* the file system: entry id -> metadata
    fault,      \* the entries whose system calls fail
    enf,        \* the Enforcer: its context, WaitGroup and the caller of Start/Stop
    wk,         \* the Enforcer's watchFolder goroutines, one per folder
    cfg,        \* the Watcher's configuration (config.Config)
    env,        \* what the environment may still do: changes, ticks, errors
    wt,         \* the Watcher: caller's position, ctx, done, fsnotify, WaitGroup
    raw,        \* notifications fsnotify has not yet delivered
    events,     \* the Watcher's events channel
    errors,     \* the Watcher's errors channel
    pe,         \* the processEvents goroutine
    pl,         \* the startPolling goroutine
    pr,         \* the Processor.Process goroutine
    stat,       \* send attempts and drop warnings while nothing was drained
    lg          \* the first program (main.go): main and its goroutines

pureVars == <<call>>
fsVars == <<fs, fault>>
enfVars == <<enf, wk>>
watVars == <<cfg, env, wt, raw, events, errors, pe, pl, pr, stat>>
legVars == <<lg>>
vars == <<call, fs, fault, enf, wk, cfg, env, wt, raw, events, errors, pe, pl, pr,
          stat, lg>>

----------------------------------------------------------------------------
(* Names and glob patterns.  A name is a sequence of characters; a pattern *)
(* is a sequence of tokens.  A token is a record [t, c]: t = "set" matches *)
(* one character of c (a literal is a singleton class), "any" is ?,        *)
(* "star" is *, and "bad" is an unterminated [ (a malformed pattern).      *)

Lit(ch) == [t |-> "set", c |-> {ch}]
Class(S) == [t |-> "set", c |-> S]
Star == [t |-> "star", c |-> {}]
AnyChar == [t |-> "any", c |-> {}]
Bad == [t |-> "bad", c |-> {}]

RECURSIVE GlobMatch(_, _)
\* filepath.Match on a well-formed pattern: the whole name must match.
GlobMatch(p, s) ==
    IF p = <<>> THEN s = <<>>
    ELSE LET h == Head(p) IN
         CASE h.t = "star" ->
                \E k \in 0..Len(s) : GlobMatch(Tail(p), SubSeq(s, k + 1, Len(s)))
           [] h.t = "any" -> s # <<>> /\ GlobMatch(Tail(p), Tail(s))
           [] h.t = "set" -> s # <<>> /\ Head(s) \in h.c /\ GlobMatch(Tail(p), Tail(s))
           [] OTHER -> FALSE

\* matched, _ := filepath.Match(pattern, name): a malformed pattern yields
\* (false, ErrBadPattern) and the error is discarded.
Match(p, s) ==
    /\ \A i \in 1..Len(p) : p[i].t # "bad"
    /\ GlobMatch(p, s)

\* filepath.Base of a path given as its sequence of segments.
Base(path) == path[Len(path)]

AnyMatch(patterns, name) == \E i \in 1..Len(patterns) : Match(patterns[i], name)

ShouldProcessIncludeFirst(path, watchDir) ==
    LET filename == Base(path) IN
    IF Len(watchDir.Include) > 0 /\ AnyMatch(watchDir.Include, filename) THEN TRUE
    ELSE IF AnyMatch(watchDir.Exclude, filename) THEN FALSE
    ELSE Len(watchDir.Include) = 0

ShouldProcessIgnoreInclude(path, watchDir) ==
    ~AnyMatch(watchDir.Exclude, Base(path))

\* Watcher.shouldProcess
ShouldProcess(path, watchDir) ==
    LET filename == Base(path) IN
    IF AnyMatch(watchDir.Exclude, filename) THEN FALSE
    ELSE IF Len(watchDir.Include) > 0 THEN AnyMatch(watchDir.Include, filename)
    ELSE TRUE

----------------------------------------------------------------------------
(* The inputs of the pure-function specification.                          *)

MaxPatterns == 2

NameATmp == <<"a", ".", "t">>
NameAMp4 == <<"a", ".", "m">>
NameTa == <<"t", "a">>
NameDir == <<"d">>
Names == {NameATmp, NameAMp4, NameTa, NameDir}

PatStarTmp == <<Star, Lit("."), Lit("t")>>
PatStarMp4 == <<Star, Lit("."), Lit("m")>>
PatTStar == <<Lit("t"), Star>>
PatAnyClass == <<AnyChar, Class({"a", "d"})>>
PatBad == <<Star, Bad>>
Patterns == {PatStarTmp, PatStarMp4, PatTStar, PatAnyClass, PatBad}

PatternLists ==
    UNION {[1..n -> Patterns] : n \in 0..MaxPatterns}

Paths == {<<NameDir, n>> : n \in Names} \cup {<<NameDir>>}

NoCall == [fn |-> "none", path |-> <<>>, Exclude |-> <<>>, Include |-> <<>>,
           done |-> FALSE, result |-> FALSE]

----------------------------------------------------------------------------
(* The file system.  Entries are numbered in the order filepath.Walk visits *)
(* them (lexical, parents first): fs[i] holds the entry's kind, its parent  *)
(* (0 for a root), its name, and the owner and mode a stat call returns.    *)

\* An os.FileMode is a record: dir is the ModeDir bit, bits are the bits
\* below it.  ModePerm is os.ModePerm (0777).
ModePerm == 511

\* mode & os.ModePerm, mode.Perm()
Perm(mode) == mode.bits % (ModePerm + 1)
\* mode.IsDir()
IsDir(mode) == mode.dir

FileMode(n) == [dir |-> FALSE, bits |-> n]

Entries == DOMAIN fs

RECURSIVE IsUnder(_, _)
\* entry i lies in the tree rooted at r (i = r included)
IsUnder(i, r) ==
    IF i = r THEN TRUE
    ELSE IF i = 0 THEN FALSE
    ELSE IsUnder(fs[i].parent, r)

RECURSIVE PathOf(_)
PathOf(i) == IF i = 0 THEN <<>> ELSE Append(PathOf(fs[i].parent), fs[i].name)

Min(S) == CHOOSE x \in S : \A y \in S : x <= y

\* The entry filepath.Walk visits after i when it descends into i (0: none).
NextEntry(i, root) ==
    LET later == {j \in Entries : j > i /\ IsUnder(j, root)} IN
    IF later = {} THEN 0 ELSE Min(later)

\* The entry filepath.Walk visits after i when it does not descend into i.
NextSkipping(i, root) ==
    LET later == {j \in Entries : j > i /\ IsUnder(j, root) /\ ~IsUnder(j, i)} IN
    IF later = {} THEN 0 ELSE Min(later)

\* What filepath.Walk hands to its callback for entry i: the lstat error of
\* the entry, or for a directory the error of reading it, or none.
WalkErr(i) ==
    IF i \in fault.lstat THEN "lstat"
    ELSE IF IsDir(fs[i].mode) /\ i \in fault.readdir THEN "readdir"
    ELSE "none"

WalkNextStopOnError(i, root) ==
    IF WalkErr(i) = "none" THEN NextEntry(i, root) ELSE 0

\* The entry Walk goes to after the callback returned nil for entry i.
WalkNext(i, root) ==
    IF WalkErr(i) = "none" THEN NextEntry(i, root) ELSE NextSkipping(i, root)

----------------------------------------------------------------------------
(* The Enforcer (internal/enforcer).                                        *)

MaxPasses == 2

\* The folders as the YAML file gives them; the roots are entries 1 and 5 of
\* the Enforcer's tree.  The first mode is 0775, the second is written 755
\* and read as a decimal number; fileMode and dirMode are optional, 0 when
\* absent.
YAMLFolders ==
    <<[Path |-> 1, UID |-> 1000, GID |-> 1000, Mode |-> 509, FileMode |-> 436,
       DirMode |-> 0],
      [Path |-> 5, UID |-> 1000, GID |-> 1000, Mode |-> 755, FileMode |-> 0,
       DirMode |-> 0]>>

\* parseFolders for one folder: FileMode and DirMode fall back to Mode.
ParseFolder(y) ==
    [Path |-> y.Path, UID |-> y.UID, GID |-> y.GID,
     Mode |-> FileMode(y.Mode),
     FileMode |-> FileMode(IF y.FileMode = 0 THEN y.Mode ELSE y.FileMode),
     DirMode |-> FileMode(IF y.DirMode = 0 THEN y.Mode ELSE y.DirMode)]

Folders == [f \in DOMAIN YAMLFolders |-> ParseFolder(YAMLFolders[f])]

FolderIds == DOMAIN Folders

NoMeta == [parent |-> 0, name |-> <<>>, uid |-> 0, gid |-> 0, mode |-> FileMode(0)]

\* The record of a worker's latest callback: the entry, the metadata Walk
\* read for it, the system calls issued, and what enforceFile returned.
NoResult == [entry |-> 0, calls |-> <<>>, changed |-> FALSE, err |-> "none",
             pre |-> NoMeta]

\* The outcome of os.Chown(path, uid, gid) on metadata m.
Chown(m, uid, gid) == [m EXCEPT !.uid = uid, !.gid = gid]

\* The outcome of os.Chmod(path, mode) on metadata m: the system call gets
\* the permission bits of mode (the configured modes carry none of Go's
\* ModeSetuid, ModeSetgid, ModeSticky flags); the type of the entry stays.
Chmod(m, mode) == [m EXCEPT !.mode.bits = Perm(mode)]

EnforceFileAlways(folder, i, info) ==
    [meta |-> Chmod(Chown(fs[i], folder.UID, folder.GID), folder.Mode),
     calls |-> <<"chown", "chmod">>, changed |-> TRUE, err |-> "none"]

EnforceFileOwnerOnly(folder, i, info) ==
    LET needChown == info.uid # folder.UID \/ info.gid # folder.GID IN
    [meta |-> IF needChown THEN Chown(fs[i], folder.UID, folder.GID) ELSE fs[i],
     calls |-> IF needChown THEN <<"chown">> ELSE <<>>,
     changed |-> needChown, err |-> "none"]

\* Enforcer.enforceFile(folder, path, info): the metadata it leaves, the
\* system calls it issued, and what it returns.
EnforceFile(folder, i, info) ==
    LET needChown == info.uid # folder.UID \/ info.gid # folder.GID
        needChmod == Perm(info.mode) # Perm(folder.Mode)
        m1 == IF needChown THEN Chown(fs[i], folder.UID, folder.GID) ELSE fs[i]
        c1 == IF needChown THEN <<"chown">> ELSE <<>>
    IN IF needChown /\ i \in fault.chown
       THEN [meta |-> fs[i], calls |-> c1, changed |-> FALSE, err |-> "chown"]
       ELSE IF needChmod /\ i \in fault.chmod
       THEN [meta |-> m1, calls |-> Append(c1, "chmod"), changed |-> FALSE,
             err |-> "chmod"]
       ELSE IF needChmod
       THEN [meta |-> Chmod(m1, folder.Mode), calls |-> Append(c1, "chmod"),
             changed |-> TRUE, err |-> "none"]
       ELSE [meta |-> m1, calls |-> c1, changed |-> needChown, err |-> "none"]

Compliant(m, folder) ==
    /\ m.uid = folder.UID
    /\ m.gid = folder.GID
    /\ Perm(m.mode) = Perm(folder.Mode)

\* The folder whose tree holds entry i.
FolderOf(i) == CHOOSE f \in FolderIds : IsUnder(i, Folders[f].Path)

\* The Enforcer's tree: /m, /m/d, /m/d/a.t, /m/ta and the second root /t.
EnforcerShape ==
    <<[parent |-> 0, name |-> <<"m">>, dir |-> TRUE],
      [parent |-> 1, name |-> NameDir, dir |-> TRUE],
      [parent |-> 2, name |-> NameATmp, dir |-> FALSE],
      [parent |-> 1, name |-> NameTa, dir |-> FALSE],
      [parent |-> 0, name |-> <<"t">>, dir |-> TRUE]>>

\* The metadata of entry i of a tree: compliant with target t, or drifted
\* in the group alone, in the mode alone, or in owner, group and mode.
MetaOf(shape, i, t, drift) ==
    [parent |-> shape[i].parent, name |-> shape[i].name,
     uid |-> IF drift = "both" THEN 0 ELSE t.UID,
     gid |-> IF drift \in {"gid", "both"} THEN 0 ELSE t.GID,
     mode |-> [dir |-> shape[i].dir,
               bits |-> IF drift \in {"mode", "both"} THEN ModePerm
                        ELSE Perm(t.Mode)]]

Drifts == {"gid", "mode", "both"}

NoFault == [lstat |-> {}, readdir |-> {}, chown |-> {}, chmod |-> {}, add |-> {}]

\* At most one failing system call on one entry.
Faults(shape) ==
    {NoFault}
    \cup {[NoFault EXCEPT !.lstat = {i}] : i \in DOMAIN shape}
    \cup {[NoFault EXCEPT !.readdir = {i}] : i \in {j \in DOMAIN shape : shape[j].dir}}
    \cup {[NoFault EXCEPT !.chown = {i}] : i \in DOMAIN shape}
    \cup {[NoFault EXCEPT !.chmod = {i}] : i \in DOMAIN shape}

\* A watchFolder goroutine: where it is, enforceTree's counters, and what
\* the claims need of its history: the entries visited in the current pass,
\* the passes completed, whether the tree was compliant when the current
\* pass began, the fixed count of the previous pass, the last callback, and
\* whether a callback has run since e.cancel().
IdleWorker == [pc |-> "idle", pos |-> 0, fixed |-> 0, skipped |-> 0, failed |-> 0,
               passes |-> 0, visited |-> {}, clean |-> FALSE, prevFixed |-> 0,
               last |-> NoResult, late |-> FALSE]

TreeOf(f) == {i \in Entries : IsUnder(i, Folders[f].Path)}

TreeCompliant(f) == \A i \in TreeOf(f) : Compliant(fs[i], Folders[f])

EnforcerIdle ==
    /\ enf = [pc |-> "new", cancelled |-> FALSE, wg |-> 0, expired |-> FALSE]
    /\ wk = [f \in FolderIds |-> IdleWorker]

EnforcerTrees ==
    /\ \E bad \in SUBSET (DOMAIN EnforcerShape), d \in Drifts :
          fs = [i \in DOMAIN EnforcerShape |->
                  MetaOf(EnforcerShape, i,
                         Folders[IF i = 5 THEN 2 ELSE 1],
                         IF i \in bad THEN d ELSE "none")]
    /\ fault \in Faults(EnforcerShape)

\* Enforcer.Start: one watchFolder goroutine per folder, each counted in the
\* WaitGroup before it is launched; a goroutine begins with enforceTree.
EnforcerStart ==
    /\ enf.pc = "new"
    /\ enf' = [enf EXCEPT !.pc = "started", !.wg = Len(Folders)]
    /\ wk' = [f \in FolderIds |->
                [IdleWorker EXCEPT !.pc = "walk", !.pos = Folders[f].Path,
                                   !.clean = TreeCompliant(f)]]
    /\ UNCHANGED <<pureVars, legVars, fsVars, watVars>>

\* The state of a worker after enforceTree's callback ran for entry w.pos.
WalkCallback(f) ==
    LET w == wk[f]
        i == w.pos
        folder == Folders[f]
        e == WalkErr(i)
        r == EnforceFile(folder, i, fs[i])
    IN IF e # "none"
       THEN [meta |-> fs[i],
             w |-> [w EXCEPT !.failed = @ + 1, !.visited = @ \cup {i},
                             !.last = [entry |-> i, calls |-> <<>>,
                                       changed |-> FALSE, err |-> e,
                                       pre |-> fs[i]]]]
       ELSE [meta |-> r.meta,
             w |-> [w EXCEPT !.failed = IF r.err # "none" THEN @ + 1 ELSE @,
                             !.fixed = IF r.err = "none" /\ r.changed THEN @ + 1 ELSE @,
                             !.skipped = IF r.err = "none" /\ ~r.changed THEN @ + 1 ELSE @,
                             !.visited = @ \cup {i},
                             !.last = [entry |-> i, calls |-> r.calls,
                                       changed |-> r.changed, err |-> r.err,
                                       pre |-> fs[i]]]]

\* One step of filepath.Walk inside Enforcer.enforceTree: the callback for
\* the current entry, then the move to the next entry; after the last entry
\* enforceTree returns and watchFolder goes to its select.
EnforceTreeStep(f) ==
    /\ wk[f].pc = "walk"
    /\ LET cb == WalkCallback(f)
           next == WalkNext(wk[f].pos, Folders[f].Path)
           w == [cb.w EXCEPT !.late = @ \/ enf.cancelled]
       IN /\ fs' = [fs EXCEPT ![wk[f].pos] = cb.meta]
          /\ wk' = [wk EXCEPT ![f] =
                      IF next # 0 THEN [w EXCEPT !.pos = next]
                      ELSE [w EXCEPT !.pos = 0, !.pc = "select",
                                     !.passes = @ + 1]]
    /\ UNCHANGED <<pureVars, legVars, fault, enf, watVars>>

\* watchFolder's select takes the ticker: a new enforceTree pass begins.
EnforcerTick(f) ==
    /\ wk[f].pc = "select"
    /\ wk[f].passes < MaxPasses
    /\ wk' = [wk EXCEPT ![f] = [@ EXCEPT !.pc = "walk", !.pos = Folders[f].Path,
                                         !.fixed = 0, !.skipped = 0, !.failed = 0,
                                         !.visited = {}, !.clean = TreeCompliant(f),
                                         !.prevFixed = wk[f].fixed]]
    /\ UNCHANGED <<pureVars, legVars, fsVars, enf, watVars>>

\* watchFolder's select takes ctx.Done: the goroutine returns (wg.Done).
EnforcerCtxDone(f) ==
    /\ wk[f].pc = "select"
    /\ enf.cancelled
    /\ wk' = [wk EXCEPT ![f].pc = "done"]
    /\ enf' = [enf EXCEPT !.wg = @ - 1]
    /\ UNCHANGED <<pureVars, legVars, fsVars, watVars>>

\* Enforcer.Stop, first half: e.cancel().
EnforcerStopCancel ==
    /\ enf.pc = "started"
    /\ enf' = [enf EXCEPT !.pc = "stopping", !.cancelled = TRUE]
    /\ UNCHANGED <<pureVars, legVars, fsVars, wk, watVars>>

\* Enforcer.Stop, second half: e.wg.Wait() returns once every goroutine
\* has called wg.Done.
EnforcerStopReturn ==
    /\ enf.pc = "stopping"
    /\ enf.wg = 0
    /\ enf' = [enf EXCEPT !.pc = "stopped"]
    /\ UNCHANGED <<pureVars, legVars, fsVars, wk, watVars>>

\* main (cmd/ownarr): the five seconds of shutdownCtx are over while
\* enf.Stop() has not returned.
ShutdownTimeout ==
    /\ enf.pc = "stopping"
    /\ ~enf.expired
    /\ enf' = [enf EXCEPT !.expired = TRUE]
    /\ UNCHANGED <<pureVars, legVars, fsVars, wk, watVars>>

NextEnforcer ==
    \/ EnforcerStart
    \/ \E f \in FolderIds : EnforceTreeStep(f)
    \/ \E f \in FolderIds : EnforcerTick(f)
    \/ \E f \in FolderIds : EnforcerCtxDone(f)
    \/ EnforcerStopCancel
    \/ EnforcerStopReturn
    \/ ShutdownTimeout

----------------------------------------------------------------------------
(* The Watcher (internal/watcher) and the Processor (internal/processor).  *)

\* make(chan Event, 100) and make(chan error, 10) in watcher.New.
EventsCap == 100
ErrorsCap == 10

\* The counters of stat stop counting at MaxCount.
MaxCount == 106
\* External changes wait while MaxRaw notifications are undelivered.
MaxRaw == 1

RECURSIVE OctalValue(_)
OctalValue(s) ==
    IF s = <<>> THEN 0
    ELSE 8 * OctalValue(SubSeq(s, 1, Len(s) - 1)) + s[Len(s)]

\* strconv.ParseUint(modeStr, 8, 32) on a string of digits; -1 is the error.
ParseOctal(s) ==
    IF s = <<>> \/ \E k \in 1..Len(s) : s[k] \notin 0..7 THEN -1
    ELSE OctalValue(s)

\* Processor.fixPermissions(path, modeStr, isDir): the metadata it leaves
\* and whether it issued os.Chmod successfully.
FixPermissions(i, modeStr) ==
    LET mode == ParseOctal(modeStr)
        keep == [meta |-> fs[i], chmod |-> FALSE]
    IN IF modeStr = <<>> \/ mode < 0 THEN keep
       ELSE IF i \in fault.lstat THEN keep
       ELSE IF Perm(fs[i].mode) = mode THEN keep
       ELSE IF i \in fault.chmod THEN keep
       ELSE [meta |-> Chmod(fs[i], FileMode(mode)), chmod |-> TRUE]

HandleEventChmodFixes(ev) ==
    IF ev.Operation = "CHMOD" /\ ev.Path \notin fault.lstat
    THEN FixPermissions(ev.Path, cfg.WatchDirs[ev.WatchDir].FileMode)
    ELSE [meta |-> fs[ev.Path], chmod |-> FALSE]

\* Processor.handleEvent and the handler it dispatches to.
HandleEvent(ev) ==
    LET i == ev.Path
        wd == cfg.WatchDirs[ev.WatchDir]
        statFails == i \in fault.lstat
        keep == [meta |-> fs[i], chmod |-> FALSE]
    IN CASE ev.Operation = "CREATE" ->
              IF statFails THEN keep
              ELSE IF IsDir(fs[i].mode) THEN FixPermissions(i, wd.DirMode)
              ELSE FixPermissions(i, wd.FileMode)
         [] ev.Operation = "WRITE" ->
              IF statFails THEN keep ELSE FixPermissions(i, wd.FileMode)
         [] ev.Operation = "POLL_CHECK" ->
              IF statFails \/ IsDir(fs[i].mode) THEN keep
              ELSE FixPermissions(i, wd.FileMode)
         [] ev.Operation = "POLL_CHECK_DIR" ->
              IF statFails \/ ~IsDir(fs[i].mode) THEN keep
              ELSE FixPermissions(i, wd.DirMode)
         [] OTHER -> keep

OperationToStringWriteFirst(op) ==
    IF "Write" \in op THEN "WRITE"
    ELSE IF "Create" \in op THEN "CREATE"
    ELSE IF "Remove" \in op THEN "REMOVE"
    ELSE IF "Rename" \in op THEN "RENAME"
    ELSE IF "Chmod" \in op THEN "CHMOD"
    ELSE "UNKNOWN"

\* Watcher.operationToString on the set of bits of an fsnotify.Op.
OperationToString(op) ==
    IF "Create" \in op THEN "CREATE"
    ELSE IF "Write" \in op THEN "WRITE"
    ELSE IF "Remove" \in op THEN "REMOVE"
    ELSE IF "Rename" \in op THEN "RENAME"
    ELSE IF "Chmod" \in op THEN "CHMOD"
    ELSE "UNKNOWN"

IsSeqPrefix(a, b) == Len(a) <= Len(b) /\ SubSeq(b, 1, Len(a)) = a

\* strings.HasPrefix(path, prefix) on the text of two paths given as their
\* segments: the last segment of the prefix may end inside a segment.
HasPrefix(path, prefix) ==
    LET n == Len(prefix) IN
    /\ n <= Len(path)
    /\ SubSeq(path, 1, n - 1) = SubSeq(prefix, 1, n - 1)
    /\ IsSeqPrefix(prefix[n], path[n])

\* Watcher.findWatchDir: the index of the first match, 0 for nil.
FindWatchDir(path) ==
    LET hits == {k \in DOMAIN cfg.WatchDirs :
                    HasPrefix(path, PathOf(cfg.WatchDirs[k].Path))}
    IN IF hits = {} THEN 0 ELSE Min(hits)

\* Watcher.shouldExclude
ShouldExclude(path, watchDir) == AnyMatch(watchDir.Exclude, Base(path))

\* The entries addWatch's Walk reaches: it skips what lies beneath an
\* excluded directory (filepath.SkipDir).
Reached(i, wd) ==
    /\ IsUnder(i, wd.Path)
    /\ \A a \in Entries :
          (a # wd.Path /\ a # i /\ IsUnder(i, a) /\ IsUnder(a, wd.Path))
          => ~(IsDir(fs[a].mode) /\ ShouldExclude(PathOf(a), wd))

AddWatchDescending(wd) ==
    LET root == wd.Path
        dirs == {i \in Entries : /\ IsUnder(i, root)
                                 /\ IsDir(fs[i].mode)
                                 /\ i # root
                                 /\ ~ShouldExclude(PathOf(i), wd)}
    IN [err |-> FALSE, dirs |-> {root} \cup dirs]

\* Watcher.addWatch: whether it returns an error and the directories it
\* registers with fsnotify.  fsWatcher.Add fails for the entries of
\* fault.add: for the watch directory itself that is an error, for a
\* subdirectory a warning.
AddWatch(wd) ==
    LET root == wd.Path
        reached == {i \in Entries : Reached(i, wd)}
        dirs == {i \in reached : /\ IsDir(fs[i].mode)
                                 /\ i # root
                                 /\ ~ShouldExclude(PathOf(i), wd)}
    IN IF root \notin Entries THEN [err |-> FALSE, dirs |-> {}]
       ELSE IF root \in fault.lstat THEN [err |-> TRUE, dirs |-> {}]
       ELSE IF root \in fault.add THEN [err |-> TRUE, dirs |-> {}]
       ELSE IF ~wd.Recursive THEN [err |-> FALSE, dirs |-> {root}]
       ELSE IF \E i \in reached : WalkErr(i) # "none"
            THEN [err |-> TRUE, dirs |-> {root}]
       ELSE [err |-> FALSE, dirs |-> {root} \cup (dirs \ fault.add)]

\* fsnotify reports a change of entry i when i or its directory is watched.
Notifies(i) ==
    /\ ~wt.fsClosed
    /\ (i \in wt.watched \/ fs[i].parent \in wt.watched)

SendOutcomesBlocking(q, cap, closed) ==
    (IF closed THEN {"panic"} ELSE {})
    \cup (IF ~closed /\ Len(q) < cap THEN {"sent"} ELSE {})
    \cup (IF wt.done THEN {"done"} ELSE {})

\* select { case ch <- x: ; case <-w.done: ; default: } on a channel with
\* buffer q: the cases that can proceed, or the default when none can.  A
\* send on a closed channel proceeds and panics.
SendOutcomes(q, cap, closed) ==
    LET ready == (IF closed THEN {"panic"} ELSE {})
                 \cup (IF ~closed /\ Len(q) < cap THEN {"sent"} ELSE {})
                 \cup (IF wt.done THEN {"done"} ELSE {})
    IN IF ready = {} THEN {"dropped"} ELSE ready

Bump(n) == IF n < MaxCount THEN n + 1 ELSE n

IdleRoutine ==
    [pc |-> "idle", ev |-> [Path |-> 0, Operation |-> "", WatchDir |-> 0, seq |-> 0]]
IdlePoller == [pc |-> "idle", dir |-> 0, pos |-> 0]

WatcherIdle ==
    /\ wt = [pc |-> "new", ctx |-> FALSE, done |-> FALSE, fsClosed |-> FALSE,
             chClosed |-> FALSE, wg |-> 0, watched |-> {}, panic |-> FALSE,
             swept |-> FALSE]
    /\ raw = <<>>
    /\ events = <<>>
    /\ errors = <<>>
    /\ pe = IdleRoutine
    /\ pl = IdlePoller
    /\ pr = [pc |-> "idle"]
    /\ stat = [attempts |-> 0, drops |-> 0, drained |-> FALSE]

NoConfig == [PollInterval |-> 0, WatchDirs |-> <<>>]
\* What the surroundings of the Watcher still have in store.  When serial is
\* positive the notifications of fsnotify are numbered in the order of their
\* delivery (serial is the next number, handled the number of the latest
\* notification the Processor handled); events of the poller have number 0.
NoEnv ==
    [notifies |-> 0, ticks |-> 0, errs |-> 0, kinds |-> {}, serial |-> 0,
     handled |-> 0]

\* The next notification of fsnotify for entry i.
Notification(i, op) == [entry |-> i, op |-> op, seq |-> env.serial]

NextSerial == IF env.serial > 0 THEN env.serial + 1 ELSE 0

\* main: w.Start(ctx) adds the watches and starts processEvents and, with a
\* positive PollInterval, startPolling; main then starts Processor.Process.
\* An addWatch error makes Start return it and main exit (logger.Fatal).
WatcherStart ==
    /\ wt.pc = "new"
    /\ LET res == [k \in DOMAIN cfg.WatchDirs |-> AddWatch(cfg.WatchDirs[k])]
       IN IF \E k \in DOMAIN res : res[k].err
          THEN /\ wt' = [wt EXCEPT !.pc = "fatal"]
               /\ UNCHANGED <<pe, pl, pr>>
          ELSE /\ wt' = [wt EXCEPT
                            !.pc = "running",
                            !.watched = UNION {res[k].dirs : k \in DOMAIN res},
                            !.wg = IF cfg.PollInterval > 0 THEN 2 ELSE 1]
               /\ pe' = [pe EXCEPT !.pc = "select"]
               /\ pl' = [pl EXCEPT !.pc = IF cfg.PollInterval > 0
                                          THEN "select" ELSE "idle"]
               /\ pr' = [pc |-> "run"]
    /\ UNCHANGED <<pureVars, legVars, fsVars, enfVars, cfg, env, raw, events, errors, stat>>

\* Something outside the program changes an entry (writes to it, or
\* creates it with some owner and mode); fsnotify queues a notification
\* when the entry is under watch.
ExternalChange ==
    /\ wt.pc \in {"running", "cancelled", "closeFs", "closeWait", "closed"}
    /\ env.notifies > 0
    /\ Len(raw) < MaxRaw
    /\ \E k \in env.kinds :
          /\ fs' = [fs EXCEPT ![k.entry].mode.bits = k.bits,
                              ![k.entry].uid = k.uid]
          /\ raw' = IF Notifies(k.entry)
                    THEN Append(raw, Notification(k.entry, k.op))
                    ELSE raw
          /\ env' = [env EXCEPT !.notifies = @ - 1,
                                !.serial = IF Notifies(k.entry) THEN NextSerial
                                           ELSE @]
    /\ UNCHANGED <<pureVars, legVars, fault, enfVars, cfg, wt, events, errors, pe, pl, pr, stat>>

\* processEvents: case event, ok := <-w.fsWatcher.Events, up to the send.
ProcessEventsReceive ==
    /\ pe.pc = "select"
    /\ ~wt.fsClosed
    /\ raw # <<>>
    /\ raw' = Tail(raw)
    /\ LET n == Head(raw)
           k == FindWatchDir(PathOf(n.entry))
       IN IF k = 0 \/ ~ShouldProcess(PathOf(n.entry), cfg.WatchDirs[k])
          THEN pe' = pe
          ELSE pe' = [pc |-> "send",
                      ev |-> [Path |-> n.entry,
                              Operation |-> OperationToString(n.op),
                              WatchDir |-> k, seq |-> n.seq]]
    /\ UNCHANGED <<pureVars, legVars, fsVars, enfVars, cfg, env, wt, events, errors, pl, pr, stat>>

ProcessEventsSendLIFO ==
    /\ pe.pc = "send"
    /\ \E o \in SendOutcomes(events, EventsCap, wt.chClosed) :
          /\ events' = IF o = "sent" THEN <<pe.ev>> \o events ELSE events
          /\ pe' = [IdleRoutine EXCEPT !.pc = IF o \in {"done", "panic"}
                                               THEN "done" ELSE "select"]
          /\ wt' = [wt EXCEPT !.wg = IF o \in {"done", "panic"} THEN @ - 1 ELSE @,
                              !.panic = @ \/ o = "panic"]
          /\ stat' = IF stat.drained THEN stat
                     ELSE [stat EXCEPT !.attempts = Bump(@),
                                       !.drops = IF o = "dropped" THEN Bump(@) ELSE @]
    /\ UNCHANGED <<pureVars, legVars, fsVars, enfVars, cfg, env, raw, errors, pl, pr>>

\* processEvents: select { case w.events <- ...: case <-w.done: default: }
ProcessEventsSend ==
    /\ pe.pc = "send"
    /\ \E o \in SendOutcomes(events, EventsCap, wt.chClosed) :
          /\ events' = IF o = "sent" THEN Append(events, pe.ev) ELSE events
          /\ pe' = [IdleRoutine EXCEPT !.pc = IF o \in {"done", "panic"}
                                               THEN "done" ELSE "select"]
          /\ wt' = [wt EXCEPT !.wg = IF o \in {"done", "panic"} THEN @ - 1 ELSE @,
                              !.panic = @ \/ o = "panic"]
          /\ stat' = IF stat.drained THEN stat
                     ELSE [stat EXCEPT !.attempts = Bump(@),
                                       !.drops = IF o = "dropped" THEN Bump(@) ELSE @]
    /\ UNCHANGED <<pureVars, legVars, fsVars, enfVars, cfg, env, raw, errors, pl, pr>>

ProcessEventsErrorReturns ==
    /\ pe.pc = "select"
    /\ ~wt.fsClosed
    /\ env.errs > 0
    /\ env' = [env EXCEPT !.errs = @ - 1]
    /\ pe' = [pe EXCEPT !.pc = "done"]
    /\ wt' = [wt EXCEPT !.wg = @ - 1]
    /\ UNCHANGED <<pureVars, legVars, fsVars, enfVars, cfg, raw, events, errors, pl, pr, stat>>

\* processEvents: case err, ok := <-w.fsWatcher.Errors and its send.
ProcessEventsError ==
    /\ pe.pc = "select"
    /\ ~wt.fsClosed
    /\ env.errs > 0
    /\ env' = [env EXCEPT !.errs = @ - 1]
    /\ \E o \in SendOutcomes(errors, ErrorsCap, wt.chClosed) :
          /\ errors' = IF o = "sent" THEN Append(errors, "err") ELSE errors
          /\ pe' = [pe EXCEPT !.pc = IF o \in {"done", "panic"}
                                     THEN "done" ELSE "select"]
          /\ wt' = [wt EXCEPT !.wg = IF o \in {"done", "panic"} THEN @ - 1 ELSE @,
                              !.panic = @ \/ o = "panic"]
    /\ UNCHANGED <<pureVars, legVars, fsVars, enfVars, cfg, raw, events, pl, pr, stat>>

\* processEvents returns: ctx.Done(), w.done, or the closed channels of the
\* fsnotify watcher.
ProcessEventsReturn ==
    /\ pe.pc = "select"
    /\ wt.ctx \/ wt.done \/ wt.fsClosed
    /\ pe' = [pe EXCEPT !.pc = "done"]
    /\ wt' = [wt EXCEPT !.wg = @ - 1]
    /\ UNCHANGED <<pureVars, legVars, fsVars, enfVars, cfg, env, raw, events, errors, pl, pr, stat>>

\* The poller's position after the walk of directory k moved to entry next
\* (0 when that walk is over): the next directories follow, then the select.
RECURSIVE PollerAt(_, _)
PollerAt(k, next) ==
    IF next # 0 THEN [pc |-> "walk", dir |-> k, pos |-> next]
    ELSE IF k >= Len(cfg.WatchDirs) THEN [pc |-> "select", dir |-> 0, pos |-> 0]
    ELSE PollerAt(k + 1, cfg.WatchDirs[k + 1].Path)

\* startPolling: case <-ticker.C, the start of performPeriodicCheck.
PollTick ==
    /\ pl.pc = "select"
    /\ env.ticks # 0
    /\ env' = [env EXCEPT !.ticks = IF @ > 0 THEN @ - 1 ELSE @]
    /\ pl' = PollerAt(0, 0)
    /\ UNCHANGED <<pureVars, legVars, fsVars, enfVars, cfg, wt, raw, events, errors, pe, pr, stat>>

\* checkDirectoryPermissions: one call of the Walk callback.  wt.swept
\* records that performPeriodicCheck has walked every watch directory to
\* its end at least once.
PollCallback ==
    /\ pl.pc = "walk"
    /\ LET wd == cfg.WatchDirs[pl.dir]
           i == pl.pos
           op == IF IsDir(fs[i].mode) THEN "POLL_CHECK_DIR" ELSE "POLL_CHECK"
           ev == [Path |-> i, Operation |-> op, WatchDir |-> pl.dir, seq |-> 0]
           next == PollerAt(pl.dir, WalkNext(i, wd.Path))
       IN IF WalkErr(i) # "none" \/ ~ShouldProcess(PathOf(i), wd)
          THEN /\ pl' = next
               /\ wt' = [wt EXCEPT !.swept = @ \/ next.pc = "select"]
               /\ UNCHANGED <<events, stat>>
          ELSE \E o \in SendOutcomes(events, EventsCap, wt.chClosed) :
                  /\ events' = IF o = "sent" THEN Append(events, ev) ELSE events
                  /\ pl' = CASE o = "panic" -> [pc |-> "done", dir |-> 0, pos |-> 0]
                             [] o = "done" -> PollerAt(pl.dir, 0)
                             [] OTHER -> next
                  /\ wt' = [wt EXCEPT !.wg = IF o = "panic" THEN @ - 1 ELSE @,
                                      !.panic = @ \/ o = "panic",
                                      !.swept = @ \/ (o \in {"sent", "dropped"}
                                                      /\ next.pc = "select")]
                  /\ stat' = IF stat.drained THEN stat
                             ELSE [stat EXCEPT
                                      !.attempts = Bump(@),
                                      !.drops = IF o = "dropped" THEN Bump(@) ELSE @]
    /\ UNCHANGED <<pureVars, legVars, fsVars, enfVars, cfg, env, raw, errors, pe, pr>>

PollReturnCtxOnly ==
    /\ pl.pc = "select"
    /\ wt.ctx
    /\ pl' = [pl EXCEPT !.pc = "done"]
    /\ wt' = [wt EXCEPT !.wg = @ - 1]
    /\ UNCHANGED <<pureVars, legVars, fsVars, enfVars, cfg, env, raw, events, errors, pe, pr, stat>>

\* startPolling returns: case <-ctx.Done() or case <-w.done.
PollReturn ==
    /\ pl.pc = "select"
    /\ wt.ctx \/ wt.done
    /\ pl' = [pl EXCEPT !.pc = "done"]
    /\ wt' = [wt EXCEPT !.wg = @ - 1]
    /\ UNCHANGED <<pureVars, legVars, fsVars, enfVars, cfg, env, raw, events, errors, pe, pr, stat>>

\* Processor.Process: case event, ok := <-events with ok, and handleEvent.
\* A buffered event is received from a closed channel as well.
ProcessEvent ==
    /\ pr.pc = "run"
    /\ wt.pc # "exited"
    /\ events # <<>>
    /\ LET ev == Head(events)
           r == HandleEvent(ev)
       IN /\ fs' = [fs EXCEPT ![ev.Path] = r.meta]
          /\ raw' = IF r.chmod /\ Notifies(ev.Path)
                    THEN Append(raw, Notification(ev.Path, {"Chmod"}))
                    ELSE raw
          /\ env' = [env EXCEPT
                        !.serial = IF r.chmod /\ Notifies(ev.Path) THEN NextSerial
                                   ELSE @,
                        !.handled = IF ev.seq > 0 THEN ev.seq ELSE @]
    /\ events' = Tail(events)
    /\ stat' = [attempts |-> 0, drops |-> 0, drained |-> TRUE]
    /\ UNCHANGED <<pureVars, legVars, fault, enfVars, cfg, wt, errors, pe, pl, pr>>

\* Processor.Process: case err, ok := <-errors with ok.
ProcessError ==
    /\ pr.pc = "run"
    /\ wt.pc # "exited"
    /\ errors # <<>>
    /\ errors' = Tail(errors)
    /\ UNCHANGED <<pureVars, legVars, fsVars, enfVars, cfg, env, wt, raw, events, pe, pl, pr, stat>>

\* Processor.Process returns: ctx.Done(), or a closed and empty channel.
ProcessReturn ==
    /\ pr.pc = "run"
    /\ wt.pc # "exited"
    /\ wt.ctx \/ (wt.chClosed /\ (events = <<>> \/ errors = <<>>))
    /\ pr' = [pc |-> "done"]
    /\ UNCHANGED <<pureVars, legVars, fsVars, enfVars, cfg, env, wt, raw, events, errors, pe, pl, stat>>

\* main: the signal arrives and main calls cancel().
MainCancel ==
    /\ wt.pc = "running"
    /\ wt' = [wt EXCEPT !.pc = "cancelled", !.ctx = TRUE]
    /\ UNCHANGED <<pureVars, legVars, fsVars, enfVars, cfg, env, raw, events, errors, pe, pl, pr, stat>>

\* Watcher.Close: close(w.done)
CloseDone ==
    /\ wt.pc = "cancelled"
    /\ wt' = [wt EXCEPT !.pc = "closeFs", !.done = TRUE]
    /\ UNCHANGED <<pureVars, legVars, fsVars, enfVars, cfg, env, raw, events, errors, pe, pl, pr, stat>>

\* Watcher.Close: w.fsWatcher.Close(); undelivered notifications are lost.
CloseSource ==
    /\ wt.pc = "closeFs"
    /\ wt' = [wt EXCEPT !.pc = "closeWait", !.fsClosed = TRUE]
    /\ raw' = <<>>
    /\ UNCHANGED <<pureVars, legVars, fsVars, enfVars, cfg, env, events, errors, pe, pl, pr, stat>>

CloseQueuesNoWait ==
    /\ wt.pc = "closeWait"
    /\ wt' = [wt EXCEPT !.pc = "closed", !.chClosed = TRUE]
    /\ UNCHANGED <<pureVars, legVars, fsVars, enfVars, cfg, env, raw, events, errors, pe, pl, pr, stat>>

\* Watcher.Close: w.wg.Wait(), close(w.events), close(w.errors), return.
CloseQueues ==
    /\ wt.pc = "closeWait"
    /\ wt.wg = 0
    /\ wt' = [wt EXCEPT !.pc = "closed", !.chClosed = TRUE]
    /\ UNCHANGED <<pureVars, legVars, fsVars, enfVars, cfg, env, raw, events, errors, pe, pl, pr, stat>>

\* main: the 500 ms sleep is over and the process ends.
MainExit ==
    /\ wt.pc = "closed"
    /\ wt' = [wt EXCEPT !.pc = "exited"]
    /\ UNCHANGED <<pureVars, legVars, fsVars, enfVars, cfg, env, raw, events, errors, pe, pl, pr, stat>>

\* fsnotify closes its Events and Errors channels while the program runs:
\* the receives of processEvents then yield ok = false.
SourceClosed ==
    /\ wt.pc = "running"
    /\ ~wt.fsClosed
    /\ wt' = [wt EXCEPT !.fsClosed = TRUE]
    /\ raw' = <<>>
    /\ UNCHANGED <<pureVars, legVars, fsVars, enfVars, cfg, env, events, errors, pe, pl, pr, stat>>

NextWatcher ==
    \/ WatcherStart
    \/ ExternalChange
    \/ ProcessEventsReceive
    \/ ProcessEventsSend
    \/ ProcessEventsError
    \/ ProcessEventsReturn
    \/ PollTick
    \/ PollCallback
    \/ PollReturn
    \/ ProcessEvent
    \/ ProcessError
    \/ ProcessReturn
    \/ MainCancel
    \/ CloseDone
    \/ CloseSource
    \/ CloseQueues
    \/ MainExit

----------------------------------------------------------------------------
(* The first program (main.go): main starts one watchFolder goroutine per  *)
(* folder; each runs enforceTree, starts a polling goroutine and then its  *)
(* event loop.                                                             *)

\* The callback of main.go's enforceTree for entry i: the metadata it leaves,
\* the system calls it issued, those that failed, and what it added to the
\* counters fixed, skipped and failed.  A failed chown is counted and the
\* chmod is still attempted; a failed chmod is counted as well; and after
\* either the entry is still counted as fixed or skipped.
LegacyTreeCallback(folder, i) ==
    LET needChown == fs[i].uid # folder.UID \/ fs[i].gid # folder.GID
        needChmod == Perm(fs[i].mode) # Perm(folder.Mode)
        chowned == needChown /\ i \notin fault.chown
        chmoded == needChmod /\ i \notin fault.chmod
        changed == chowned \/ chmoded
        m1 == IF chowned THEN Chown(fs[i], folder.UID, folder.GID) ELSE fs[i]
        m2 == IF chmoded THEN Chmod(m1, folder.Mode) ELSE m1
    IN IF WalkErr(i) # "none"
       THEN [meta |-> fs[i], calls |-> <<>>, failed |-> {},
             counted |-> [fixed |-> 0, skipped |-> 0, failed |-> 1]]
       ELSE [meta |-> m2,
             calls |-> (IF needChown THEN <<"chown">> ELSE <<>>)
                       \o (IF needChmod THEN <<"chmod">> ELSE <<>>),
             failed |-> (IF needChown /\ ~chowned THEN {"chown"} ELSE {})
                        \cup (IF needChmod /\ ~chmoded THEN {"chmod"} ELSE {}),
             counted |-> [fixed |-> IF changed THEN 1 ELSE 0,
                          skipped |-> IF changed THEN 0 ELSE 1,
                          failed |-> (IF needChown /\ ~chowned THEN 1 ELSE 0)
                                     + (IF needChmod /\ ~chmoded THEN 1 ELSE 0)]]

\* main.go's enforceFile(cfg, path): chown and chmod without comparing, the
\* chmod whatever the chown returned.
LegacyEnforceFile(folder, i) ==
    LET m1 == IF i \in fault.chown THEN fs[i]
              ELSE Chown(fs[i], folder.UID, folder.GID)
        m2 == IF i \in fault.chmod THEN m1 ELSE Chmod(m1, folder.Mode)
    IN IF i \in fault.lstat
       THEN [meta |-> fs[i], calls |-> <<>>, failed |-> {}]
       ELSE [meta |-> m2, calls |-> <<"chown", "chmod">>,
             failed |-> (IF i \in fault.chown THEN {"chown"} ELSE {})
                        \cup (IF i \in fault.chmod THEN {"chmod"} ELSE {})]

\* The directories watchFolder's first Walk adds to its fsnotify watcher.
LegacyWatched(f) ==
    {i \in TreeOf(f) :
        /\ IsDir(fs[i].mode)
        /\ \A a \in TreeOf(f) : IsUnder(i, a) => WalkErr(a) = "none"}

LegacyRoutine == [pc |-> "idle", pos |-> 0]

\* The latest enforcement of one entry by a goroutine of main.go.
NoCount == [fixed |-> 0, skipped |-> 0, failed |-> 0]

NoLegacyCall == [entry |-> 0, calls |-> <<>>, failed |-> {}, by |-> "none",
                 counted |-> NoCount]

\* The callback of the polling goroutine's enforceTree and the event loop's
\* enforceFile at work on the same entry, one system call at a time: where
\* each of them is, and the FileInfo filepath.Walk gave the callback.
NoOverlap ==
    [entry |-> 0, poll |-> [pc |-> "idle", info |-> NoMeta],
     event |-> [pc |-> "idle"]]

NoLegacy ==
    [pc |-> "idle", ticks |-> 0, changes |-> 0, step |-> NoOverlap,
     w |-> [f \in FolderIds |-> LegacyRoutine],
     p |-> [f \in FolderIds |-> LegacyRoutine],
     watched |-> [f \in FolderIds |-> {}],
     notes |-> [f \in FolderIds |-> <<>>],
     last |-> NoLegacyCall]

\* What inotify reports for the calls of one enforcement of entry i: a Chmod
\* notification (IN_ATTRIB) for every chown and chmod that succeeded, when
\* the entry or its directory is watched by folder f's watcher.
LegacyEcho(f, i, r) ==
    IF i \in lg.watched[f] \/ fs[i].parent \in lg.watched[f]
    THEN [k \in 1..(Len(r.calls) - Cardinality(r.failed)) |->
             [entry |-> i, op |-> {"Chmod"}]]
    ELSE <<>>

\* main: go watchFolder(folderCfg, cfg.PollInterval) for every folder; each
\* goroutine creates its watcher, adds the directories and enters enforceTree.
LegacyMain ==
    /\ lg.pc = "idle"
    /\ lg' = [lg EXCEPT !.pc = "running",
                        !.w = [f \in FolderIds |->
                                 [pc |-> "walk", pos |-> Folders[f].Path]],
                        !.watched = [f \in FolderIds |-> LegacyWatched(f)]]
    /\ UNCHANGED <<pureVars, fsVars, enfVars, watVars>>

\* One callback of the initial enforceTree in watchFolder; after the last
\* one the polling goroutine is started and the event loop entered.
LegacyInitialStep(f) ==
    /\ lg.pc \in {"running", "signalled"}
    /\ lg.w[f].pc = "walk"
    /\ LET i == lg.w[f].pos
           next == WalkNext(i, Folders[f].Path)
           r == LegacyTreeCallback(Folders[f], i)
           last == [entry |-> i, calls |-> r.calls, failed |-> r.failed,
                    by |-> "enforceTree", counted |-> r.counted]
       IN /\ fs' = [fs EXCEPT ![i] = r.meta]
          /\ lg' = IF next # 0
                   THEN [lg EXCEPT !.w[f].pos = next, !.last = last,
                                   !.notes[f] = @ \o LegacyEcho(f, i, r)]
                   ELSE [lg EXCEPT !.w[f] = [pc |-> "select", pos |-> 0],
                                   !.p[f] = [pc |-> "range", pos |-> 0],
                                   !.last = last,
                                   !.notes[f] = @ \o LegacyEcho(f, i, r)]
    /\ UNCHANGED <<pureVars, fault, enfVars, watVars>>

\* The polling goroutine: for range ticker.C receives a tick.
LegacyTick(f) ==
    /\ lg.pc \in {"running", "signalled"}
    /\ lg.p[f].pc = "range"
    /\ lg.ticks > 0
    /\ lg' = [lg EXCEPT !.ticks = @ - 1,
                        !.p[f] = [pc |-> "walk", pos |-> Folders[f].Path]]
    /\ UNCHANGED <<pureVars, fsVars, enfVars, watVars>>

\* One callback of the polling goroutine's enforceTree.
LegacyPollStep(f) ==
    /\ lg.pc \in {"running", "signalled"}
    /\ lg.p[f].pc = "walk"
    /\ LET i == lg.p[f].pos
           next == WalkNext(i, Folders[f].Path)
           r == LegacyTreeCallback(Folders[f], i)
           last == [entry |-> i, calls |-> r.calls, failed |-> r.failed,
                    by |-> "enforceTree", counted |-> r.counted]
       IN /\ fs' = [fs EXCEPT ![i] = r.meta]
          /\ lg' = IF next # 0
                   THEN [lg EXCEPT !.p[f].pos = next, !.last = last,
                                   !.notes[f] = @ \o LegacyEcho(f, i, r)]
                   ELSE [lg EXCEPT !.p[f] = [pc |-> "range", pos |-> 0],
                                   !.last = last,
                                   !.notes[f] = @ \o LegacyEcho(f, i, r)]
    /\ UNCHANGED <<pureVars, fault, enfVars, watVars>>

\* Something outside the program writes to or touches an entry of a folder.
LegacyChange(f) ==
    /\ lg.pc \in {"running", "signalled"}
    /\ lg.changes > 0
    /\ \E i \in TreeOf(f), op \in {{"Write"}, {"Chmod"}} :
          /\ ~IsDir(fs[i].mode)
          /\ fs[i].parent \in lg.watched[f]
          /\ fs' = [fs EXCEPT ![i].mode.bits = ModePerm]
          /\ lg' = [lg EXCEPT !.changes = @ - 1,
                              !.notes[f] = Append(@, [entry |-> i, op |-> op])]
    /\ UNCHANGED <<pureVars, fault, enfVars, watVars>>

LegacyEnforcesAnyOp(op) == op \cap {"Create", "Write", "Chmod"} # {}

\* The event loop's two tests of event.Op: "Ignore CHMOD spam" continues with
\* the next event, and enforceFile is called for Create or Write.
LegacyEnforces(op) == "Chmod" \notin op /\ op \cap {"Create", "Write"} # {}

\* The event loop: case event, ok := <-watcher.Events with ok.  The loop
\* returns only on a closed channel, and the channels are closed by the
\* deferred watcher.Close() of this very function: it never returns.
LegacyEvent(f) ==
    /\ lg.pc \in {"running", "signalled"}
    /\ lg.w[f].pc = "select"
    /\ lg.notes[f] # <<>>
    /\ LET n == Head(lg.notes[f])
           i == n.entry
           add == "Create" \in n.op /\ i \notin fault.lstat /\ IsDir(fs[i].mode)
           enforce == LegacyEnforces(n.op)
           r == LegacyEnforceFile(Folders[f], i)
       IN /\ fs' = IF enforce THEN [fs EXCEPT ![i] = r.meta] ELSE fs
          /\ lg' = [lg EXCEPT !.notes[f] = IF enforce
                                           THEN Tail(@) \o LegacyEcho(f, i, r)
                                           ELSE Tail(@),
                              !.watched[f] = IF add THEN @ \cup {i} ELSE @,
                              !.last = IF enforce
                                       THEN [entry |-> i, calls |-> r.calls,
                                             failed |-> r.failed,
                                             by |-> "enforceFile",
                                             counted |-> NoCount]
                                       ELSE @]
    /\ UNCHANGED <<pureVars, fault, enfVars, watVars>>

\* main: <-sigChan
LegacySignal ==
    /\ lg.pc = "running"
    /\ lg' = [lg EXCEPT !.pc = "signalled"]
    /\ UNCHANGED <<pureVars, fsVars, enfVars, watVars>>

\* main returns after logging the signal: the process ends with every
\* goroutine wherever it is.
LegacyExit ==
    /\ lg.pc = "signalled"
    /\ lg' = [lg EXCEPT !.pc = "exited"]
    /\ UNCHANGED <<pureVars, fsVars, enfVars, watVars>>

NextLegacy ==
    \/ LegacyMain
    \/ \E f \in FolderIds : LegacyInitialStep(f)
    \/ \E f \in FolderIds : LegacyTick(f)
    \/ \E f \in FolderIds : LegacyPollStep(f)
    \/ \E f \in FolderIds : LegacyChange(f)
    \/ \E f \in FolderIds : LegacyEvent(f)
    \/ LegacySignal
    \/ LegacyExit

\* filepath.Walk in the polling goroutine's enforceTree: the lstat whose
\* FileInfo the callback receives.
OverlapPollStat ==
    /\ lg.step.poll.pc = "stat"
    /\ lg' = [lg EXCEPT !.step.poll = [pc |-> "chown", info |-> fs[lg.step.entry]]]
    /\ UNCHANGED <<pureVars, fsVars, enfVars, watVars>>

OverlapPollChownStale ==
    /\ lg.step.poll.pc = "chown"
    /\ LET i == lg.step.entry
           cfgF == Folders[FolderOf(i)]
           info == lg.step.poll.info
       IN fs' = IF info.uid # cfgF.UID \/ info.gid # cfgF.GID
                THEN [fs EXCEPT ![i] = Chown(@, cfgF.UID, info.gid)]
                ELSE fs
    /\ lg' = [lg EXCEPT !.step.poll.pc = "chmod"]
    /\ UNCHANGED <<pureVars, fault, enfVars, watVars>>

\* enforceTree's callback: the ownership block, decided on the FileInfo.
OverlapPollChown ==
    /\ lg.step.poll.pc = "chown"
    /\ LET i == lg.step.entry
           cfgF == Folders[FolderOf(i)]
           info == lg.step.poll.info
       IN fs' = IF info.uid # cfgF.UID \/ info.gid # cfgF.GID
                THEN [fs EXCEPT ![i] = Chown(@, cfgF.UID, cfgF.GID)]
                ELSE fs
    /\ lg' = [lg EXCEPT !.step.poll.pc = "chmod"]
    /\ UNCHANGED <<pureVars, fault, enfVars, watVars>>

\* enforceTree's callback: the permissions block, decided on the FileInfo.
OverlapPollChmod ==
    /\ lg.step.poll.pc = "chmod"
    /\ LET i == lg.step.entry
           cfgF == Folders[FolderOf(i)]
           info == lg.step.poll.info
       IN fs' = IF Perm(info.mode) # Perm(cfgF.Mode)
                THEN [fs EXCEPT ![i] = Chmod(@, cfgF.Mode)]
                ELSE fs
    /\ lg' = [lg EXCEPT !.step.poll.pc = "done"]
    /\ UNCHANGED <<pureVars, fault, enfVars, watVars>>

\* enforceFile: os.Lstat(path)
OverlapEventLstat ==
    /\ lg.step.event.pc = "lstat"
    /\ lg' = [lg EXCEPT !.step.event.pc = "chown"]
    /\ UNCHANGED <<pureVars, fsVars, enfVars, watVars>>

\* enforceFile: os.Chown(path, cfg.UID, cfg.GID)
OverlapEventChown ==
    /\ lg.step.event.pc = "chown"
    /\ LET i == lg.step.entry
           cfgF == Folders[FolderOf(i)]
       IN fs' = [fs EXCEPT ![i] = Chown(@, cfgF.UID, cfgF.GID)]
    /\ lg' = [lg EXCEPT !.step.event.pc = "chmod"]
    /\ UNCHANGED <<pureVars, fault, enfVars, watVars>>

\* enforceFile: os.Chmod(path, cfg.Mode)
OverlapEventChmod ==
    /\ lg.step.event.pc = "chmod"
    /\ LET i == lg.step.entry
           cfgF == Folders[FolderOf(i)]
       IN fs' = [fs EXCEPT ![i] = Chmod(@, cfgF.Mode)]
    /\ lg' = [lg EXCEPT !.step.event.pc = "done"]
    /\ UNCHANGED <<pureVars, fault, enfVars, watVars>>

NextOverlap ==
    \/ OverlapPollStat
    \/ OverlapPollChown
    \/ OverlapPollChmod
    \/ OverlapEventLstat
    \/ OverlapEventChown
    \/ OverlapEventChmod

----------------------------------------------------------------------------
(* Specifications.                                                         *)

LegacyIdle == lg = NoLegacy

\* shouldProcess applied once to a path and the patterns of a WatchDir.
InitMatch ==
    /\ \E p \in Paths, ex \in PatternLists, inc \in PatternLists :
          call = [fn |-> "shouldProcess", path |-> p, Exclude |-> ex,
                  Include |-> inc, done |-> FALSE, result |-> FALSE]
    /\ fs = <<>>
    /\ fault = NoFault
    /\ EnforcerIdle
    /\ cfg = NoConfig
    /\ env = NoEnv
    /\ WatcherIdle
    /\ LegacyIdle

CallShouldProcess ==
    /\ call.fn = "shouldProcess"
    /\ ~call.done
    /\ call' = [call EXCEPT !.done = TRUE,
                            !.result = ShouldProcess(call.path, call)]
    /\ UNCHANGED <<fsVars, enfVars, watVars, legVars>>

NextMatch == CallShouldProcess

SpecMatch == InitMatch /\ [][NextMatch]_vars

InitEnforcer ==
    /\ call = NoCall
    /\ EnforcerTrees
    /\ EnforcerIdle
    /\ cfg = NoConfig
    /\ env = NoEnv
    /\ WatcherIdle
    /\ LegacyIdle

SpecEnforcer == InitEnforcer /\ [][NextEnforcer]_vars

MaxNotify == 1
MaxTicks == 1
MaxBurst == 102

\* A WatchDir as config.Load leaves it: the default modes are strings.
WatchDirOf(root, exclude) ==
    [Path |-> root, Recursive |-> TRUE, Exclude |-> exclude, Include |-> <<>>,
     FileMode |-> <<0, 6, 4, 4>>, DirMode |-> <<0, 7, 5, 5>>]

ConfigOf(exclude) == [PollInterval |-> 30, WatchDirs |-> <<WatchDirOf(1, exclude)>>]

\* The Watcher's tree: /d, /d/a.m, the directory /d/a.t and /d/a.t/ta.
WatcherShape ==
    <<[parent |-> 0, name |-> NameDir, dir |-> TRUE],
      [parent |-> 1, name |-> NameAMp4, dir |-> FALSE],
      [parent |-> 1, name |-> NameATmp, dir |-> TRUE],
      [parent |-> 3, name |-> NameTa, dir |-> FALSE]>>

\* A directory with as many files as the events channel has room for.
WideShape ==
    [i \in 1..(EventsCap + 1) |->
        IF i = 1 THEN [parent |-> 0, name |-> NameDir, dir |-> TRUE]
        ELSE [parent |-> 1, name |-> <<"f", ToString(i)>>, dir |-> FALSE]]

\* The owner and mode the WatchDir asks of entry i of a tree.
TargetOf(shape, i) ==
    LET wd == WatchDirOf(1, <<>>) IN
    [UID |-> 1000, GID |-> 1000,
     Mode |-> FileMode(ParseOctal(IF shape[i].dir THEN wd.DirMode ELSE wd.FileMode))]

TreeWith(shape, bad) ==
    [i \in DOMAIN shape |->
        MetaOf(shape, i, TargetOf(shape, i), IF i \in bad THEN "mode" ELSE "none")]

\* The failures the Watcher and the Processor meet: a failing lstat of /d or
\* of /d/a.m, an unreadable /d/a.t, a failing chmod of /d/a.m.
WatcherFaults ==
    {f \in Faults(WatcherShape) :
        /\ f.chown = {}
        /\ f.lstat \subseteq {1, 2}
        /\ f.readdir \subseteq {3}
        /\ f.chmod \subseteq {2}}
    \cup {[NoFault EXCEPT !.add = {1}]}

\* The entries whose mode is not the target mode when the program starts.
Drifted == {{}, {1, 2, 3, 4}}

\* External changes: a write that leaves /d/a.m with mode 0666, and the
\* creation of the excluded /d/a.t with mode 0777.
Changes ==
    {[entry |-> 2, op |-> {"Write"}, bits |-> 438, uid |-> 1000],
     [entry |-> 3, op |-> {"Create"}, bits |-> 511, uid |-> 1000]}

\* A burst of chmod notifications for /d/a.m that leave its mode alone.
Touches == {[entry |-> 2, op |-> {"Chmod"}, bits |-> 420, uid |-> 1000]}

\* main with the small tree: external changes, one polling pass per tick,
\* failing system calls; or a run of transport errors.
InitWatcher ==
    /\ call = NoCall
    /\ EnforcerIdle
    /\ WatcherIdle
    /\ LegacyIdle
    /\ cfg = ConfigOf(<<PatStarTmp>>)
    /\ \/ /\ \E bad \in Drifted : fs = TreeWith(WatcherShape, bad)
          /\ fault \in WatcherFaults
          /\ env = [notifies |-> MaxNotify, ticks |-> MaxTicks, errs |-> 0,
                    kinds |-> Changes, serial |-> 0, handled |-> 0]
       \/ /\ fs = TreeWith(WatcherShape, {})
          /\ fault = NoFault
          /\ env = [notifies |-> 0, ticks |-> 0, errs |-> ErrorsCap + 1,
                    kinds |-> {}, serial |-> 0, handled |-> 0]

SpecWatcher == InitWatcher /\ [][NextWatcher]_vars

\* main with the small tree, every mode off target, no failing system call
\* and one polling pass, the notifications of fsnotify numbered; or one
\* transport error.
InitOrder ==
    /\ call = NoCall
    /\ EnforcerIdle
    /\ WatcherIdle
    /\ LegacyIdle
    /\ cfg = ConfigOf(<<PatStarTmp>>)
    /\ fault = NoFault
    /\ \/ /\ fs = TreeWith(WatcherShape, {1, 2, 3, 4})
          /\ env = [NoEnv EXCEPT !.notifies = MaxNotify, !.ticks = 1,
                                 !.kinds = Changes, !.serial = 1]
       \/ /\ fs = TreeWith(WatcherShape, {})
          /\ env = [NoEnv EXCEPT !.errs = 1]

SpecOrder == InitOrder /\ [][NextWatcher]_vars

\* main with the small tree, every mode off target, one polling pass, one
\* external change and one transport error; fsnotify may close its channels
\* at any time.
InitSource ==
    /\ call = NoCall
    /\ EnforcerIdle
    /\ WatcherIdle
    /\ LegacyIdle
    /\ cfg = ConfigOf(<<PatStarTmp>>)
    /\ fs = TreeWith(WatcherShape, {1, 2, 3, 4})
    /\ fault = NoFault
    /\ env = [NoEnv EXCEPT !.notifies = MaxNotify, !.ticks = 1, !.errs = 1,
                           !.kinds = Changes]

NextSource == NextWatcher \/ SourceClosed

SpecSource == InitSource /\ [][NextSource]_vars

\* Names in the order in which filepath.Walk visits siblings.
NameOrder == <<NameAMp4, NameATmp, NameDir, NameTa>>

\* A tree of directories: /d, /d/n2, /d/n2/n3 and /d/n4.
DeepShape(n2, n3, n4) ==
    <<[parent |-> 0, name |-> NameDir, dir |-> TRUE],
      [parent |-> 1, name |-> n2, dir |-> TRUE],
      [parent |-> 2, name |-> n3, dir |-> TRUE],
      [parent |-> 1, name |-> n4, dir |-> TRUE]>>

\* main before w.Start(ctx), for every tree of directories and every list
\* of exclude patterns.
InitRegister ==
    /\ call = NoCall
    /\ EnforcerIdle
    /\ WatcherIdle
    /\ LegacyIdle
    /\ fault = NoFault
    /\ env = NoEnv
    /\ \E ex \in PatternLists : cfg = ConfigOf(ex)
    /\ \E j, k \in DOMAIN NameOrder, n3 \in Names :
          /\ j < k
          /\ fs = TreeWith(DeepShape(NameOrder[j], n3, NameOrder[k]), {})

SpecRegister == InitRegister /\ [][WatcherStart]_vars

\* main.go with the polling goroutine's walk about to reach an entry for
\* which the event loop has just received a Create or Write event; every
\* system call succeeds.
InitOverlap ==
    /\ call = NoCall
    /\ EnforcerIdle
    /\ cfg = NoConfig
    /\ env = NoEnv
    /\ WatcherIdle
    /\ fault = NoFault
    /\ \E i \in DOMAIN EnforcerShape, drift \in Drifts \cup {"none"} :
          /\ fs = [j \in DOMAIN EnforcerShape |->
                     MetaOf(EnforcerShape, j, Folders[IF j = 5 THEN 2 ELSE 1],
                            IF j = i THEN drift ELSE "none")]
          /\ lg = [NoLegacy EXCEPT
                      !.pc = "running",
                      !.step = [entry |-> i,
                                poll |-> [pc |-> "stat", info |-> NoMeta],
                                event |-> [pc |-> "lstat"]]]

SpecOverlap == InitOverlap /\ [][NextOverlap]_vars

\* The Enforcer's tree and beside it a copy of /m as /w: entry i + TwinOffset
\* is the copy of entry i.
TwinOffset == Len(EnforcerShape)
TwinShape ==
    EnforcerShape
    \o [i \in 1..4 |->
          [EnforcerShape[i] EXCEPT
              !.parent = IF @ = 0 THEN 0 ELSE @ + TwinOffset,
              !.name = IF i = 1 THEN <<"w">> ELSE @]]

\* The Enforcer on /m and /t, and the Watcher with its Processor on /w with
\* polling and no patterns; the two trees start with the same drift.
InitTwin ==
    /\ call = NoCall
    /\ EnforcerIdle
    /\ WatcherIdle
    /\ LegacyIdle
    /\ fault = NoFault
    /\ cfg = [PollInterval |-> 30,
              WatchDirs |-> <<WatchDirOf(1 + TwinOffset, <<>>)>>]
    /\ env = [NoEnv EXCEPT !.ticks = 1]
    /\ \E drift \in Drifts, bad \in SUBSET (1..4) :
          fs = [i \in DOMAIN TwinShape |->
                  MetaOf(TwinShape, i,
                         IF i <= TwinOffset THEN Folders[IF i = 5 THEN 2 ELSE 1]
                         ELSE TargetOf(TwinShape, i),
                         IF i \in bad \/ i - TwinOffset \in bad THEN drift
                         ELSE "none")]

\* One pass of each design: the initial enforceTree of every watchFolder
\* goroutine, and one polling pass whose events the Processor handles.
NextTwin ==
    \/ EnforcerStart
    \/ \E f \in FolderIds : EnforceTreeStep(f)
    \/ WatcherStart
    \/ PollTick
    \/ PollCallback
    \/ ProcessEvent

SpecTwin == InitTwin /\ [][NextTwin]_vars

\* Another process creates /d/a.m or /d/a.t/ta as root or as uid 1000, with
\* mode 0600, 0644 or 0777.
Creations ==
    {[entry |-> i, op |-> {"Create"}, bits |-> b, uid |-> u] :
        i \in {2, 4}, b \in {384, 420, 511}, u \in {0, 1000}}

\* main with the small tree, with or without the exclude pattern, before
\* the first poll; files are created.
InitCreate ==
    /\ call = NoCall
    /\ EnforcerIdle
    /\ WatcherIdle
    /\ LegacyIdle
    /\ fault = NoFault
    /\ \E pats \in {<<>>, <<PatStarTmp>>} : cfg = ConfigOf(pats)
    /\ \E bad \in Drifted \cup {{}} : fs = TreeWith(WatcherShape, bad)
    /\ env = [NoEnv EXCEPT !.notifies = MaxNotify, !.kinds = Creations]

NextCreate ==
    \/ WatcherStart
    \/ ExternalChange
    \/ ProcessEventsReceive
    \/ ProcessEventsSend
    \/ ProcessEvent

SpecCreate == InitCreate /\ [][NextCreate]_vars

\* Two watch directories that are siblings, the name of the second beginning
\* with the name of the first: /d with /d/a.m, /d/a.t and /d/a.t/ta, and /da
\* with /da/a.m.
NameDa == <<"d", "a">>

RouteShape ==
    WatcherShape \o <<[parent |-> 0, name |-> NameDa, dir |-> TRUE],
                      [parent |-> 5, name |-> NameAMp4, dir |-> FALSE]>>

RouteDir(root, recursive, include, fileMode) ==
    [WatchDirOf(root, <<>>) EXCEPT !.Recursive = recursive, !.Include = include,
                                   !.FileMode = fileMode]

\* watch_dirs: /d (file_mode "0644") and /da (file_mode "0600") in either
\* order, /d recursive or not, with or without the include pattern "*.m".
RouteConfigs ==
    {[PollInterval |-> 30, WatchDirs |-> dirs] :
        dirs \in UNION {
            {<<RouteDir(1, r, inc, <<0, 6, 4, 4>>), RouteDir(5, TRUE, <<>>, <<0, 6, 0, 0>>)>>,
             <<RouteDir(5, TRUE, <<>>, <<0, 6, 0, 0>>), RouteDir(1, r, inc, <<0, 6, 4, 4>>)>>} :
            r \in BOOLEAN, inc \in {<<>>, <<PatStarMp4>>}}}

\* The mode each watch directory of RouteConfigs asks of entry i.
RouteTarget(i) ==
    [UID |-> 1000, GID |-> 1000,
     Mode |-> FileMode(IF RouteShape[i].dir THEN 493 ELSE IF i = 6 THEN 384 ELSE 420)]

\* Notifications of fsnotify with several bits of Op set, with one and with
\* none, for files of both trees; the change leaves the file with mode 0666.
RouteChanges ==
    {[entry |-> 2, op |-> {"Create", "Write"}, bits |-> 438, uid |-> 1000],
     [entry |-> 2, op |-> {"Remove", "Rename", "Chmod"}, bits |-> 438, uid |-> 1000],
     [entry |-> 2, op |-> {}, bits |-> 438, uid |-> 1000],
     [entry |-> 4, op |-> {"Write", "Chmod"}, bits |-> 438, uid |-> 1000],
     [entry |-> 6, op |-> {"Write"}, bits |-> 438, uid |-> 1000]}

\* main with the two trees on target and shutdown at any moment: a run with
\* one external change, a run with one polling pass, a run with one
\* transport error.
InitRoute ==
    /\ call = NoCall
    /\ EnforcerIdle
    /\ WatcherIdle
    /\ LegacyIdle
    /\ fault = NoFault
    /\ cfg \in RouteConfigs
    /\ fs = [i \in DOMAIN RouteShape |-> MetaOf(RouteShape, i, RouteTarget(i), "none")]
    /\ \/ env = [NoEnv EXCEPT !.notifies = 1, !.kinds = RouteChanges]
       \/ env = [NoEnv EXCEPT !.ticks = 1]
       \/ env = [NoEnv EXCEPT !.errs = 1]

SpecRoute == InitRoute /\ [][NextWatcher]_vars

\* The operation labels an Event can carry, and two that no code produces.
EventLabels ==
    {"CREATE", "WRITE", "REMOVE", "RENAME", "CHMOD", "POLL_CHECK",
     "POLL_CHECK_DIR", "UNKNOWN", "MOVE"}

\* handleEvent is about to be called with an Event for an entry of the small
\* tree, on target or drifted; os.Stat of the path may fail (the path does
\* not exist).
InitHandle ==
    /\ \E i \in DOMAIN WatcherShape, op \in EventLabels, bad \in Drifted :
          /\ fs = TreeWith(WatcherShape, bad)
          /\ call = [fn |-> "handleEvent",
                     ev |-> [Path |-> i, Operation |-> op, WatchDir |-> 1, seq |-> 0],
                     pre |-> TreeWith(WatcherShape, bad),
                     done |-> FALSE, chmod |-> FALSE]
          /\ fault \in {NoFault, [NoFault EXCEPT !.lstat = {i}],
                         [NoFault EXCEPT !.chmod = {i}]}
    /\ EnforcerIdle
    /\ WatcherIdle
    /\ LegacyIdle
    /\ cfg = ConfigOf(<<>>)
    /\ env = NoEnv

\* p.handleEvent(event)
CallHandleEvent ==
    /\ call.fn = "handleEvent"
    /\ ~call.done
    /\ LET res == HandleEvent(call.ev)
       IN /\ fs' = [fs EXCEPT ![call.ev.Path] = res.meta]
          /\ call' = [call EXCEPT !.done = TRUE, !.chmod = res.chmod]
    /\ UNCHANGED <<fault, enfVars, watVars, legVars>>

NextHandle == CallHandleEvent

SpecHandle == InitHandle /\ [][NextHandle]_vars

\* Goroutines that call Watcher.Close.
MaxClosers == 2

Closers == 1..MaxClosers

\* A Watcher from watcher.New, and goroutines that have not yet called Close.
\* call.at is where each caller is in Close; call.closes counts the close
\* statements executed on done and on events and errors; call.panic records
\* a close of a closed channel.
InitClose ==
    /\ call = [fn |-> "Close", at |-> [c \in Closers |-> "idle"],
               closes |-> [done |-> 0, queues |-> 0], panic |-> FALSE]
    /\ EnforcerIdle
    /\ WatcherIdle
    /\ LegacyIdle
    /\ fault = NoFault
    /\ \E pats \in {<<>>, <<PatStarTmp>>} : cfg = ConfigOf(pats)
    /\ fs = TreeWith(WatcherShape, {})
    /\ env = NoEnv

\* w.Start(ctx), before any call of Close.
CloseAfterStart ==
    /\ \A c \in Closers : call.at[c] = "idle"
    /\ WatcherStart

\* Close: select { case <-w.done: return nil; default: }, the choice of the
\* case.
CloseSelect(c) ==
    /\ call.at[c] = "idle"
    /\ call' = [call EXCEPT !.at[c] = IF wt.done THEN "returned" ELSE "closeDone"]
    /\ UNCHANGED <<fsVars, enfVars, watVars, legVars>>

\* Close: close(w.done) in the default case.
CloseCloseDone(c) ==
    /\ call.at[c] = "closeDone"
    /\ call' = [call EXCEPT !.at[c] = IF wt.done THEN "panicked" ELSE "closeFs",
                            !.closes.done = @ + 1,
                            !.panic = @ \/ wt.done]
    /\ wt' = [wt EXCEPT !.done = TRUE]
    /\ UNCHANGED <<legVars, fsVars, enfVars, cfg, env, raw, events, errors, pe, pl, pr, stat>>

\* Close: w.fsWatcher.Close()
CloseFsWatcher(c) ==
    /\ call.at[c] = "closeFs"
    /\ call' = [call EXCEPT !.at[c] = "wait"]
    /\ wt' = [wt EXCEPT !.fsClosed = TRUE]
    /\ raw' = <<>>
    /\ UNCHANGED <<legVars, fsVars, enfVars, cfg, env, events, errors, pe, pl, pr, stat>>

\* Close: w.wg.Wait() is over, close(w.events), close(w.errors), return.
CloseCloseQueues(c) ==
    /\ call.at[c] = "wait"
    /\ wt.wg = 0
    /\ call' = [call EXCEPT !.at[c] = IF wt.chClosed THEN "panicked" ELSE "returned",
                            !.closes.queues = @ + 1,
                            !.panic = @ \/ wt.chClosed]
    /\ wt' = [wt EXCEPT !.chClosed = TRUE]
    /\ UNCHANGED <<legVars, fsVars, enfVars, cfg, env, raw, events, errors, pe, pl, pr, stat>>

NextClose ==
    \/ CloseAfterStart
    \/ \E c \in Closers :
          \/ CloseSelect(c)
          \/ CloseCloseDone(c)
          \/ CloseFsWatcher(c)
          \/ CloseCloseQueues(c)
    \/ ProcessEventsReturn
    \/ PollReturn

SpecClose == InitClose /\ [][NextClose]_vars

\* Watcher.Close called while the context is still live: close(w.done).
CloseDoneLive ==
    /\ wt.pc = "running"
    /\ wt' = [wt EXCEPT !.pc = "closeFs", !.done = TRUE]
    /\ UNCHANGED <<pureVars, legVars, fsVars, enfVars, cfg, env, raw, events, errors, pe, pl, pr, stat>>

\* A Watcher whose events nobody receives, on a directory with more files
\* than the events channel has room for: a run with one external change,
\* with or without a polling pass, a run with one transport error; Close at
\* any moment, after cancel() or without it.
InitShutdown ==
    /\ call = NoCall
    /\ EnforcerIdle
    /\ WatcherIdle
    /\ LegacyIdle
    /\ fault = NoFault
    /\ cfg = ConfigOf(<<>>)
    /\ fs = TreeWith(WideShape, {})
    /\ \E t \in {0, 1} :
          \/ env = [NoEnv EXCEPT !.notifies = 1, !.ticks = t,
                                 !.kinds = {[entry |-> 2, op |-> {"Write"},
                                             bits |-> 438, uid |-> 1000]}]
          \/ env = [NoEnv EXCEPT !.errs = 1]

\* The external change comes when the events queue is full, or when it is
\* empty and no polling pass is running or due.
ShutdownChange ==
    /\ \/ Len(events) = EventsCap
       \/ events = <<>> /\ env.ticks = 0 /\ pl.pc # "walk"
    /\ ExternalChange

NextShutdown ==
    \/ WatcherStart
    \/ ShutdownChange
    \/ ProcessEventsReceive
    \/ ProcessEventsSend
    \/ ProcessEventsError
    \/ ProcessEventsReturn
    \/ PollTick
    \/ PollCallback
    \/ PollReturn
    \/ MainCancel
    \/ CloseDone
    \/ CloseDoneLive
    \/ CloseSource
    \/ CloseQueues

\* The Go scheduler runs every goroutine that can take a step, and the call
\* of Close proceeds.
FairShutdown ==
    /\ WF_vars(ProcessEventsSend)
    /\ WF_vars(ProcessEventsReturn)
    /\ WF_vars(PollCallback)
    /\ WF_vars(PollReturn)
    /\ WF_vars(CloseSource)
    /\ WF_vars(CloseQueues)

SpecShutdown == InitShutdown /\ [][NextShutdown]_vars /\ FairShutdown

\* Either program left alone with a tree: main.go with two folders, on
\* target or drifted, a chown that may fail, and one tick of its poller; or
\* the Watcher and the Processor with /d on target or with every mode
\* drifted, and one tick.  No external change and no shutdown.
InitQuiet ==
    /\ call = NoCall
    /\ EnforcerIdle
    /\ WatcherIdle
    /\ \/ /\ cfg = NoConfig
          /\ env = NoEnv
          /\ lg = [NoLegacy EXCEPT !.ticks = 1]
          /\ \E bad \in {{}, {3}, DOMAIN EnforcerShape} :
                fs = [i \in DOMAIN EnforcerShape |->
                        MetaOf(EnforcerShape, i, Folders[IF i = 5 THEN 2 ELSE 1],
                               IF i \in bad THEN "both" ELSE "none")]
          /\ fault \in {NoFault, [NoFault EXCEPT !.chown = {3}]}
       \/ /\ cfg = ConfigOf(<<>>)
          /\ env = [NoEnv EXCEPT !.ticks = 1, !.serial = 1]
          /\ LegacyIdle
          /\ \E bad \in Drifted : fs = TreeWith(WatcherShape, bad)
          /\ fault = NoFault

\* main of main.go.
QuietLegacyMain ==
    /\ cfg = NoConfig
    /\ LegacyMain

\* main of the Watcher generation.
QuietWatcherStart ==
    /\ cfg # NoConfig
    /\ WatcherStart

NextQuiet ==
    \/ QuietLegacyMain
    \/ \E f \in FolderIds : LegacyInitialStep(f)
    \/ \E f \in FolderIds : LegacyTick(f)
    \/ \E f \in FolderIds : LegacyPollStep(f)
    \/ \E f \in FolderIds : LegacyEvent(f)
    \/ QuietWatcherStart
    \/ ProcessEventsReceive
    \/ ProcessEventsSend
    \/ PollTick
    \/ PollCallback
    \/ ProcessEvent

\* The Go scheduler runs every goroutine that can take a step.
FairQuiet ==
    /\ \A f \in FolderIds :
          /\ WF_vars(LegacyInitialStep(f))
          /\ WF_vars(LegacyPollStep(f))
          /\ WF_vars(LegacyEvent(f))
    /\ WF_vars(ProcessEventsReceive)
    /\ WF_vars(ProcessEventsSend)
    /\ WF_vars(PollCallback)
    /\ WF_vars(ProcessEvent)

SpecQuiet == InitQuiet /\ [][NextQuiet]_vars /\ FairQuiet

\* Either program with recursive watching and no polling tick to come:
\* main.go with its two folders, on target or drifted, or the Watcher and the
\* Processor with /d on target, with or without the exclusion of "*.t", and
\* one external change of an entry that exists.
InitGrow ==
    /\ call = NoCall
    /\ EnforcerIdle
    /\ WatcherIdle
    /\ LegacyIdle
    /\ fault = NoFault
    /\ \/ /\ cfg = NoConfig
          /\ env = NoEnv
          /\ \E bad \in {{}, {3}, DOMAIN EnforcerShape} :
                fs = [i \in DOMAIN EnforcerShape |->
                        MetaOf(EnforcerShape, i, Folders[IF i = 5 THEN 2 ELSE 1],
                               IF i \in bad THEN "both" ELSE "none")]
       \/ /\ cfg \in {ConfigOf(<<>>), ConfigOf(<<PatStarTmp>>)}
          /\ env = [NoEnv EXCEPT !.serial = 1, !.notifies = 1, !.kinds = Changes]
          /\ fs = TreeWith(WatcherShape, {})

\* The directory somebody creates after startup, /t/n or /d/n, and the file
\* created in it later, as entries of the tree.
GrowDir == IF cfg = NoConfig THEN Len(EnforcerShape) + 1 ELSE Len(WatcherShape) + 1
GrowFile == GrowDir + 1
GrowRoot == IF cfg = NoConfig THEN Folders[2].Path ELSE cfg.WatchDirs[1].Path

\* mkdir and creat by another process: owner root, modes 0777 and 0666.
CreatedMeta(parent, name, dir) ==
    [parent |-> parent, name |-> name, uid |-> 0, gid |-> 0,
     mode |-> [dir |-> dir, bits |-> IF dir THEN ModePerm ELSE 438]]

\* Somebody creates the directory /t/n while main.go runs.
LegacyMkdir ==
    /\ cfg = NoConfig
    /\ lg.pc = "running"
    /\ Len(fs) = GrowDir - 1
    /\ fs' = Append(fs, CreatedMeta(GrowRoot, <<"n">>, TRUE))
    /\ lg' = [lg EXCEPT !.notes[2] = IF GrowRoot \in lg.watched[2]
                                     THEN Append(@, [entry |-> GrowDir,
                                                     op |-> {"Create"}])
                                     ELSE @]
    /\ UNCHANGED <<pureVars, fault, enfVars, watVars>>

\* Somebody creates the file /t/n/f once the event loop has handled what
\* was reported before.
LegacyCreateInside ==
    /\ cfg = NoConfig
    /\ Len(fs) = GrowFile - 1
    /\ lg.notes[2] = <<>>
    /\ fs' = Append(fs, CreatedMeta(GrowDir, <<"f">>, FALSE))
    /\ lg' = [lg EXCEPT !.notes[2] = IF GrowDir \in lg.watched[2]
                                     THEN Append(@, [entry |-> GrowFile,
                                                     op |-> {"Create"}])
                                     ELSE @]
    /\ UNCHANGED <<pureVars, fault, enfVars, watVars>>

\* Somebody creates the directory /d/n while the Watcher runs.
WatcherMkdir ==
    /\ cfg # NoConfig
    /\ wt.pc = "running"
    /\ Len(fs) = GrowDir - 1
    /\ fs' = Append(fs, CreatedMeta(GrowRoot, <<"n">>, TRUE))
    /\ LET told == GrowRoot \in wt.watched /\ ~wt.fsClosed
       IN /\ raw' = IF told THEN Append(raw, Notification(GrowDir, {"Create"}))
                    ELSE raw
          /\ env' = [env EXCEPT !.serial = IF told THEN NextSerial ELSE @]
    /\ UNCHANGED <<pureVars, legVars, fault, enfVars, cfg, wt, events, errors, pe, pl, pr, stat>>

\* Somebody creates the file /d/n/f once the Watcher and the Processor have
\* handled what was reported before.
WatcherCreateInside ==
    /\ cfg # NoConfig
    /\ Len(fs) = GrowFile - 1
    /\ raw = <<>> /\ events = <<>> /\ pe.pc # "send"
    /\ fs' = Append(fs, CreatedMeta(GrowDir, <<"f">>, FALSE))
    /\ LET told == GrowDir \in wt.watched /\ ~wt.fsClosed
       IN /\ raw' = IF told THEN Append(raw, Notification(GrowFile, {"Create"}))
                    ELSE raw
          /\ env' = [env EXCEPT !.serial = IF told THEN NextSerial ELSE @]
    /\ UNCHANGED <<pureVars, legVars, fault, enfVars, cfg, wt, events, errors, pe, pl, pr, stat>>

NextGrow ==
    \/ QuietLegacyMain
    \/ \E f \in FolderIds : LegacyInitialStep(f)
    \/ \E f \in FolderIds : LegacyEvent(f)
    \/ LegacyMkdir
    \/ LegacyCreateInside
    \/ QuietWatcherStart
    \/ ExternalChange
    \/ ProcessEventsReceive
    \/ ProcessEventsSend
    \/ ProcessEvent
    \/ WatcherMkdir
    \/ WatcherCreateInside

\* The Go scheduler runs every goroutine that can take a step.
FairGrow ==
    /\ \A f \in FolderIds :
          /\ WF_vars(LegacyInitialStep(f))
          /\ WF_vars(LegacyEvent(f))
    /\ WF_vars(ProcessEventsReceive)
    /\ WF_vars(ProcessEventsSend)
    /\ WF_vars(ProcessEvent)

SpecGrow == InitGrow /\ [][NextGrow]_vars /\ FairGrow

\* Path strings of a configuration file, as a flag for the leading separator
\* and the names that follow: "", "/d" and "a.t".
EmptyPath == [abs |-> FALSE, names |-> <<>>]
ConfigPaths ==
    {EmptyPath,
     [abs |-> TRUE, names |-> <<NameDir>>],
     [abs |-> FALSE, names |-> <<NameATmp>>]}

\* os.Getwd: the process runs in /d.
Getwd == <<NameDir>>

FilepathAbsIdentity(p, wdFails) == [err |-> FALSE, path |-> p]

\* filepath.Abs: an absolute path is returned as it is, a relative one is
\* joined to the working directory, and that fails when os.Getwd fails.
FilepathAbs(p, wdFails) ==
    IF p.abs THEN [err |-> FALSE, path |-> p]
    ELSE IF wdFails THEN [err |-> TRUE, path |-> EmptyPath]
    ELSE [err |-> FALSE, path |-> [abs |-> TRUE, names |-> Getwd \o p.names]]

\* Config.validate, the loop over c.WatchDirs from index i on.  err names the
\* return that was taken ("" for nil); cfg is the Config as the loop left it.
RECURSIVE ValidateFrom(_, _, _)
ValidateFrom(c, i, wdFails) ==
    IF i > Len(c.WatchDirs) THEN [err |-> "", cfg |-> c]
    ELSE LET watchDir == c.WatchDirs[i]
             a == FilepathAbs(watchDir.Path, wdFails)
         IN IF watchDir.Path = EmptyPath THEN [err |-> "path", cfg |-> c]
            ELSE IF a.err THEN [err |-> "abs", cfg |-> c]
            ELSE ValidateFrom(
                    [c EXCEPT !.WatchDirs[i] =
                        [@ EXCEPT !.Path = a.path,
                                  !.FileMode = IF @ = <<>> THEN <<0, 6, 4, 4>> ELSE @,
                                  !.DirMode = IF @ = <<>> THEN <<0, 7, 5, 5>> ELSE @]],
                    i + 1, wdFails)

\* Config.validate
Validate(c, wdFails) ==
    IF c.PollInterval <= 0 THEN [err |-> "poll", cfg |-> c]
    ELSE ValidateFrom(c, 1, wdFails)

\* The watch_dirs entries a configuration file can hold: a path, and modes
\* that are left out or written as "0600" and "0700".
FileWatchDirs ==
    [Path : ConfigPaths, Recursive : {TRUE}, Exclude : {<<>>}, Include : {<<>>},
     FileMode : {<<>>, <<0, 6, 0, 0>>}, DirMode : {<<>>, <<0, 7, 0, 0>>}]

MaxDirs == 2

\* What koanf unmarshals from a configuration file over DefaultConfig.
ConfigFiles ==
    [PollInterval : {-1, 0, 30},
     WatchDirs : UNION {[1..n -> FileWatchDirs] : n \in 0..MaxDirs}]

\* The entry of the file system a path names from the working directory
\* (0: there is none).
Resolve(path) ==
    LET names == IF path.abs THEN path.names ELSE Getwd \o path.names
        found == {i \in DOMAIN fs : PathOf(i) = names}
    IN IF found = {} THEN 0 ELSE CHOOSE i \in found : TRUE

\* main before config.Load: a configuration file, and whether os.Getwd
\* works in the process.
InitConfig ==
    /\ \E c \in ConfigFiles, b \in BOOLEAN :
          call = [fn |-> "Load", file |-> c, wdFails |-> b, done |-> FALSE,
                  err |-> "", cfg |-> c]
    /\ EnforcerIdle
    /\ WatcherIdle
    /\ LegacyIdle
    /\ fault = NoFault
    /\ cfg = NoConfig
    /\ fs = TreeWith(WatcherShape, {})
    /\ env = NoEnv

\* main: cfg, err := config.Load(*configPath); logger.Fatal on an error,
\* else watcher.New(cfg, logger).
ConfigLoad ==
    /\ call.fn = "Load"
    /\ ~call.done
    /\ LET res == Validate(call.file, call.wdFails)
       IN /\ call' = [call EXCEPT !.done = TRUE, !.err = res.err, !.cfg = res.cfg]
          /\ IF res.err # ""
             THEN /\ wt' = [wt EXCEPT !.pc = "fatal"]
                  /\ cfg' = cfg
             ELSE /\ wt' = wt
                  /\ cfg' = [PollInterval |-> res.cfg.PollInterval,
                             WatchDirs |->
                                [k \in DOMAIN res.cfg.WatchDirs |->
                                    [res.cfg.WatchDirs[k] EXCEPT
                                        !.Path = Resolve(@)]]]
    /\ UNCHANGED <<legVars, fsVars, enfVars, env, raw, events, errors, pe, pl, pr, stat>>

\* main: w.Start(ctx) once the configuration is loaded.
MainStart == call.done /\ WatcherStart

NextConfig ==
    \/ ConfigLoad
    \/ MainStart

SpecConfig == InitConfig /\ [][NextConfig]_vars

\* A mode as it is written in the YAML file or in FOLDERS: three digits, the
\* first not 0.
ModeTexts == {t \in [1..3 -> 0..9] : t[1] # 0}

\* yaml.Unmarshal of a plain integer scalar into YAMLFolder.Mode (an int).
RECURSIVE DecimalValue(_)
DecimalValue(s) ==
    IF s = <<>> THEN 0
    ELSE 10 * DecimalValue(SubSeq(s, 1, Len(s) - 1)) + s[Len(s)]

\* strconv.ParseUint(parts[3], 8, 32)
ParseUint8(s) ==
    IF \E k \in DOMAIN s : s[k] > 7 THEN [err |-> TRUE, value |-> 0]
    ELSE [err |-> FALSE, value |-> OctalValue(s)]

\* parseLegacyFolderConfig for "/m:1000:1000:" followed by the mode.
ParseLegacyFolderConfig(text) ==
    LET mode == ParseUint8(text) IN
    [err |-> mode.err,
     folder |-> [Path |-> 1, UID |-> 1000, GID |-> 1000,
                 Mode |-> FileMode(mode.value),
                 FileMode |-> FileMode(0), DirMode |-> FileMode(0)]]

\* loadFromFile for a folder of the YAML file with the mode alone.
ParseYAMLFolder(text) ==
    [err |-> FALSE,
     folder |-> ParseFolder([Path |-> 1, UID |-> 1000, GID |-> 1000,
                             Mode |-> DecimalValue(text),
                             FileMode |-> 0, DirMode |-> 0])]

\* A folder is about to be read from the YAML file or from FOLDERS.
InitModes ==
    /\ \E t \in ModeTexts, src \in {"yaml", "env"} :
          call = [fn |-> "parseMode", source |-> src, text |-> t,
                  done |-> FALSE, err |-> FALSE, folder |-> ParseFolder(YAMLFolders[1]),
                  after |-> 0]
    /\ fs = <<>>
    /\ fault = NoFault
    /\ EnforcerIdle
    /\ cfg = NoConfig
    /\ env = NoEnv
    /\ WatcherIdle
    /\ LegacyIdle

\* The folder is parsed, and enforceFile chmods an entry of mode 0 to it.
CallParseMode ==
    /\ call.fn = "parseMode"
    /\ ~call.done
    /\ LET res == IF call.source = "yaml" THEN ParseYAMLFolder(call.text)
                  ELSE ParseLegacyFolderConfig(call.text)
       IN call' = [call EXCEPT
                     !.done = TRUE,
                     !.err = res.err,
                     !.folder = IF res.err THEN @ ELSE res.folder,
                     !.after = IF res.err THEN @
                               ELSE Chmod(NoMeta, res.folder.Mode).mode.bits]
    /\ UNCHANGED <<fsVars, enfVars, watVars, legVars>>

NextModes == CallParseMode

SpecModes == InitModes /\ [][NextModes]_vars

\* yamlConfig.TrashGuides == nil
NoTrashGuides == [Enabled |-> FALSE, Type |-> "", RootPath |-> <<>>,
                  MediaTypes |-> <<>>, CreateStructure |-> FALSE, UID |-> 0,
                  GID |-> 0, FolderMode |-> 0, FileMode |-> 0, present |-> FALSE]

\* The trashGuides sections a YAML file can hold; paths are sequences of
\* names, rootPath is "" or "/data".
TrashGuidesConfigs ==
    [Enabled : BOOLEAN, Type : {"usenet", "torrent", "nzb"},
     RootPath : {<<>>, <<"data">>}, MediaTypes : {<<>>, <<"movies">>},
     CreateStructure : BOOLEAN, UID : {0, 1001}, GID : {0},
     FolderMode : {0, 509}, FileMode : {0}, present : {TRUE}]

\* A Folder of generateTrashGuidesStructure.
TrashFolder(path, uid, gid, folderMode, fileMode) ==
    [Path |-> path, UID |-> uid, GID |-> gid, Mode |-> FileMode(0),
     FolderMode |-> folderMode, FileMode |-> fileMode]

\* Config.generateTrashGuidesStructure; mkdirFails: os.MkdirAll fails.
GenerateTrashGuidesStructure(tg, mkdirFails) ==
    LET mediaTypes == IF Len(tg.MediaTypes) = 0
                      THEN <<"movies", "tv", "music", "books">>
                      ELSE tg.MediaTypes
        folderMode == IF tg.FolderMode # 0 THEN FileMode(tg.FolderMode)
                      ELSE FileMode(493)
        fileMode == IF tg.FileMode # 0 THEN FileMode(tg.FileMode)
                    ELSE FileMode(420)
        uid == IF tg.UID # 0 THEN tg.UID ELSE 1000
        gid == IF tg.GID # 0 THEN tg.GID ELSE 1000
        F(names) == TrashFolder(tg.RootPath \o names, uid, gid, folderMode, fileMode)
        RECURSIVE PerType(_)
        PerType(k) ==
            IF k > Len(mediaTypes) THEN <<>>
            ELSE <<F(<<"media", mediaTypes[k]>>), F(<<"torrents", mediaTypes[k]>>)>>
                 \o PerType(k + 1)
        usenet == IF tg.Type = "usenet"
                  THEN <<F(<<"usenet">>), F(<<"usenet", "complete">>),
                         F(<<"usenet", "incomplete">>)>>
                       \o [k \in DOMAIN mediaTypes |->
                              F(<<"usenet", "complete", mediaTypes[k]>>)]
                  ELSE <<>>
        folders == <<F(<<"media">>), F(<<"torrents">>)>> \o PerType(1) \o usenet
    IN IF ~tg.present \/ ~tg.Enabled THEN [err |-> FALSE, folders |-> <<>>]
       ELSE IF tg.RootPath = <<>> THEN [err |-> TRUE, folders |-> <<>>]
       ELSE IF tg.Type \notin {"usenet", "torrent"} THEN [err |-> TRUE, folders |-> <<>>]
       ELSE IF mkdirFails THEN [err |-> TRUE, folders |-> <<>>]
       ELSE [err |-> FALSE, folders |-> folders]

\* The folders a YAML file lists: /m with the legacy mode alone, /n with
\* folderMode and fileMode.
ListedFolders ==
    {[Path |-> <<"m">>, UID |-> 1000, GID |-> 1000, Mode |-> 509,
      FolderMode |-> 0, FileMode |-> 0],
     [Path |-> <<"n">>, UID |-> 1000, GID |-> 1000, Mode |-> 0,
      FolderMode |-> 493, FileMode |-> 420]}

MaxListed == 1

\* loadFromFile: the Folder made from one YAMLFolder.
ListedFolder(y) ==
    LET mode == FileMode(y.Mode)
        folderMode == FileMode(y.FolderMode)
        fileMode == FileMode(y.FileMode)
        legacy == y.Mode # 0 /\ y.FolderMode = 0 /\ y.FileMode = 0
    IN [Path |-> y.Path, UID |-> y.UID, GID |-> y.GID, Mode |-> mode,
        FolderMode |-> IF legacy THEN mode ELSE folderMode,
        FileMode |-> IF legacy THEN mode ELSE fileMode]

\* Config.loadFromFile on a new Config, the folders part: the generated
\* folders are appended to c.Folders, then c.Folders is made anew and the
\* listed folders are appended.
LoadFromFile(yamlConfig, mkdirFails) ==
    LET tg == yamlConfig.TrashGuides
        create == tg.present /\ tg.Enabled /\ tg.CreateStructure
        gen == IF create THEN GenerateTrashGuidesStructure(tg, mkdirFails)
               ELSE [err |-> FALSE, folders |-> <<>>]
        appended == <<>> \o gen.folders
        made == <<>>
        listed == [k \in DOMAIN yamlConfig.Folders |->
                      ListedFolder(yamlConfig.Folders[k])]
    IN IF gen.err THEN [err |-> TRUE, generated |-> <<>>, Folders |-> appended]
       ELSE [err |-> FALSE, generated |-> gen.folders, Folders |-> made \o listed]

\* Load with CONFIG_FILE set: a YAML file, and whether os.MkdirAll works.
InitTrash ==
    /\ \E tg \in TrashGuidesConfigs \cup {NoTrashGuides},
          fl \in UNION {[1..n -> ListedFolders] : n \in 0..MaxListed},
          b \in BOOLEAN :
          call = [fn |-> "Load",
                  yaml |-> [Folders |-> fl, TrashGuides |-> tg],
                  mkdirFails |-> b, done |-> FALSE, err |-> FALSE,
                  generated |-> <<>>, Folders |-> <<>>]
    /\ fs = <<>>
    /\ fault = NoFault
    /\ EnforcerIdle
    /\ cfg = NoConfig
    /\ env = NoEnv
    /\ WatcherIdle
    /\ LegacyIdle

\* Load: loadFromFile, applyDefaults, Validate ("no folders configured").
CallLoad ==
    /\ call.fn = "Load"
    /\ ~call.done
    /\ LET res == LoadFromFile(call.yaml, call.mkdirFails)
       IN call' = [call EXCEPT
                     !.done = TRUE,
                     !.err = res.err \/ Len(res.Folders) = 0,
                     !.generated = res.generated,
                     !.Folders = res.Folders]
    /\ UNCHANGED <<fsVars, enfVars, watVars, legVars>>

NextTrash == CallLoad

SpecTrash == InitTrash /\ [][NextTrash]_vars

\* The text of a duration: a sign, decimal digits and a unit; EmptyText is "".
EmptyText == [neg |-> FALSE, digits |-> <<>>, unit |-> ""]

\* "", "0", "0s", "30s", "5m", "-5s", "-1m", "30" and "s".
DurationTexts ==
    {EmptyText,
     [neg |-> FALSE, digits |-> <<0>>, unit |-> ""],
     [neg |-> FALSE, digits |-> <<0>>, unit |-> "s"],
     [neg |-> FALSE, digits |-> <<3, 0>>, unit |-> "s"],
     [neg |-> FALSE, digits |-> <<5>>, unit |-> "m"],
     [neg |-> TRUE, digits |-> <<5>>, unit |-> "s"],
     [neg |-> TRUE, digits |-> <<1>>, unit |-> "m"],
     [neg |-> FALSE, digits |-> <<3, 0>>, unit |-> ""],
     [neg |-> FALSE, digits |-> <<>>, unit |-> "s"]}

\* time.ParseDuration, in seconds: "" and a text without digits are errors,
\* "0" is zero, any other number needs a unit, and a sign is accepted.
ParseDuration(t) ==
    LET n == DecimalValue(t.digits)
        d == n * (IF t.unit = "m" THEN 60 ELSE 1)
    IN IF t.digits = <<>> THEN [err |-> TRUE, d |-> 0]
       ELSE IF t.unit = "" THEN [err |-> n # 0, d |-> 0]
       ELSE [err |-> FALSE, d |-> IF t.neg THEN 0 - d ELSE d]

\* DefaultPollInterval = 30 * time.Second
DefaultPollInterval == 30

\* loadBasicConfigFromEnv, the POLL_INTERVAL part: a text that parses
\* replaces c.PollInterval, any other is ignored.
LoadBasicConfigFromEnv(interval, envText) ==
    IF envText # EmptyText /\ ~ParseDuration(envText).err
    THEN ParseDuration(envText).d
    ELSE interval

\* loadFromFile and loadFromEnv on a new Config, the PollInterval part.
LoadInterval(fromFile, yamlText, envText) ==
    IF fromFile /\ yamlText # EmptyText /\ ParseDuration(yamlText).err
    THEN [err |-> TRUE, PollInterval |-> 0]
    ELSE [err |-> FALSE,
          PollInterval |->
             LoadBasicConfigFromEnv(
                IF fromFile /\ yamlText # EmptyText
                THEN ParseDuration(yamlText).d ELSE 0, envText)]

\* applyDefaults, the PollInterval part.
ApplyDefaults(interval) == IF interval = 0 THEN DefaultPollInterval ELSE interval

\* Load is about to be called: CONFIG_FILE set or not, the pollInterval of
\* the file, POLL_INTERVAL, and whether folders are configured.
InitInterval ==
    /\ \E file \in BOOLEAN, y \in DurationTexts, e \in DurationTexts,
          folders \in 0..1 :
          call = [fn |-> "Load/interval", fromFile |-> file, yaml |-> y,
                  env |-> e, folders |-> folders, done |-> FALSE,
                  err |-> FALSE, PollInterval |-> 0, ticker |-> "none"]
    /\ fs = <<>>
    /\ fault = NoFault
    /\ EnforcerIdle
    /\ cfg = NoConfig
    /\ env = NoEnv
    /\ WatcherIdle
    /\ LegacyIdle

\* Load: loadFromFile or loadFromEnv, applyDefaults, Validate.  Validate
\* looks at the port, the log level and the folders.
CallLoadInterval ==
    /\ call.fn = "Load/interval"
    /\ ~call.done
    /\ LET res == LoadInterval(call.fromFile, call.yaml, call.env)
       IN call' = [call EXCEPT
                     !.done = TRUE,
                     !.err = res.err \/ call.folders = 0,
                     !.PollInterval = IF res.err THEN 0
                                      ELSE ApplyDefaults(res.PollInterval)]
    /\ UNCHANGED <<fsVars, enfVars, watVars, legVars>>

\* Enforcer.watchFolder after its first pass: time.NewTicker(PollInterval),
\* which panics for a duration that is not positive.
CallNewTicker ==
    /\ call.fn = "Load/interval"
    /\ call.done
    /\ ~call.err
    /\ call.ticker = "none"
    /\ call' = [call EXCEPT !.ticker = IF call.PollInterval <= 0 THEN "panic"
                                       ELSE "ticking"]
    /\ UNCHANGED <<fsVars, enfVars, watVars, legVars>>

NextInterval ==
    \/ CallLoadInterval
    \/ CallNewTicker

SpecInterval == InitInterval /\ [][NextInterval]_vars

\* main under load: a burst of notifications within one polling interval,
\* a run of transport errors, or one polling pass over a directory with
\* more entries than the events channel holds.
InitBackpressure ==
    /\ call = NoCall
    /\ EnforcerIdle
    /\ WatcherIdle
    /\ LegacyIdle
    /\ fault = NoFault
    /\ \/ /\ cfg = ConfigOf(<<PatStarTmp>>)
          /\ fs = TreeWith(WatcherShape, {})
          /\ env = [NoEnv EXCEPT !.notifies = MaxBurst, !.kinds = Touches]
       \/ /\ cfg = ConfigOf(<<PatStarTmp>>)
          /\ fs = TreeWith(WatcherShape, {})
          /\ env = [notifies |-> 0, ticks |-> 0, errs |-> ErrorsCap + 1,
                    kinds |-> {}, serial |-> 0, handled |-> 0]
       \/ /\ cfg = ConfigOf(<<>>)
          /\ fs = TreeWith(WideShape, {EventsCap + 1})
          /\ env = [NoEnv EXCEPT !.ticks = 1]

SpecBackpressure == InitBackpressure /\ [][NextWatcher]_vars

InitLegacy ==
    /\ call = NoCall
    /\ \E bad \in {{}, {3}, DOMAIN EnforcerShape} :
          fs = [i \in DOMAIN EnforcerShape |->
                  MetaOf(EnforcerShape, i, Folders[IF i = 5 THEN 2 ELSE 1],
                         IF i \in bad THEN "both" ELSE "none")]
    /\ fault \in {NoFault, [NoFault EXCEPT !.chown = {3}],
                  [NoFault EXCEPT !.readdir = {2}]}
    /\ EnforcerIdle
    /\ cfg = NoConfig
    /\ env = NoEnv
    /\ WatcherIdle
    /\ lg = [NoLegacy EXCEPT !.ticks = MaxTicks, !.changes = MaxNotify]

\* The Go scheduler runs every goroutine that can take a step.
FairLegacy ==
    /\ WF_vars(LegacyMain)
    /\ WF_vars(LegacyExit)
    /\ \A f \in FolderIds :
          /\ WF_vars(LegacyInitialStep(f))
          /\ WF_vars(LegacyPollStep(f))
          /\ WF_vars(LegacyEvent(f))

SpecLegacy == InitLegacy /\ [][NextLegacy]_vars /\ FairLegacy

\* A schedule of the Watcher and the Processor in which the Processor is
\* slower than a polling pass: it handles events between two passes, and
\* the ticker fires once the channel is drained.  No external change, no
\* shutdown.
InitLoad ==
    /\ call = NoCall
    /\ EnforcerIdle
    /\ WatcherIdle
    /\ LegacyIdle
    /\ cfg = ConfigOf(<<>>)
    /\ fs = TreeWith(WideShape, {EventsCap + 1})
    /\ fault = NoFault
    /\ env = [NoEnv EXCEPT !.ticks = -1]

LoadTick == events = <<>> /\ PollTick

LoadDrain == pl.pc = "select" /\ ProcessEvent

NextLoad ==
    \/ WatcherStart
    \/ LoadTick
    \/ PollCallback
    \/ LoadDrain

\* Every goroutine that can take a step is run, and the ticker keeps firing.
FairLoad ==
    /\ WF_vars(WatcherStart)
    /\ WF_vars(LoadTick)
    /\ WF_vars(PollCallback)
    /\ WF_vars(LoadDrain)

SpecLoad == InitLoad /\ [][NextLoad]_vars /\ FairLoad

----------------------------------------------------------------------------
(* Claims about the path filter (SpecMatch).                               *)

\* The mode the configuration asks of entry i of the watched directory.
TargetBits(i) ==
    ParseOctal(IF IsDir(fs[i].mode) THEN cfg.WatchDirs[1].DirMode
               ELSE cfg.WatchDirs[1].FileMode)

AllAtTarget ==
    \A i \in Entries :
        ShouldProcess(PathOf(i), cfg.WatchDirs[1]) => Perm(fs[i].mode) = TargetBits(i)

\* C1: with polling enabled, the consumer running and no further external
\* change, every entry under a watched directory that passes the path filter
\* eventually has the target mode, even when poll events for it were dropped
\* because the events queue was full.
C1_EventuallyTarget == <>AllAtTarget

SendingEvent == pe.pc = "send"
Walking == pl.pc = "walk"
ErrorReady == pe.pc = "select" /\ ~wt.fsClosed /\ env.errs > 0

\* The event the polling walk offers for entry i of the first WatchDir.
PollEventOf(i) ==
    [Path |-> i,
     Operation |-> IF IsDir(fs[i].mode) THEN "POLL_CHECK_DIR" ELSE "POLL_CHECK",
     WatchDir |-> 1, seq |-> 0]

\* C2: the events queue never holds more than 100 entries and the errors
\* queue never more than 10; a producer at a send always has a step to take
\* (it never blocks); and while nothing has been drained and no shutdown has
\* begun, k send attempts leave min(k, 100) events queued, the first ones
\* offered, and k - min(k, 100) dropped.
C2_BoundedLossyQueues ==
    /\ Len(events) <= EventsCap
    /\ Len(errors) <= ErrorsCap
    /\ SendingEvent => ENABLED ProcessEventsSend
    /\ Walking => ENABLED PollCallback
    /\ ErrorReady => ENABLED ProcessEventsError
    /\ (~stat.drained /\ ~wt.done /\ stat.attempts < MaxCount) =>
          /\ Len(events) = IF stat.attempts < EventsCap THEN stat.attempts
                           ELSE EventsCap
          /\ stat.drops = stat.attempts - Len(events)
          /\ Len(fs) > EventsCap =>
                events = [j \in 1..Len(events) |-> PollEventOf(j)]

C2_Witness ==
    /\ ~stat.drained
    /\ ~wt.done
    /\ stat.attempts > EventsCap
    /\ stat.attempts < MaxCount
    /\ stat.drops = stat.attempts - EventsCap
    /\ Len(events) = EventsCap

LegacyWorkersReturned ==
    \A f \in FolderIds : lg.w[f].pc = "returned" /\ lg.p[f].pc = "returned"

\* C3: after the shutdown signal every worker goroutine eventually
\* terminates; here for the goroutines of main.go's watchFolder, the event
\* loop and the polling loop.
C3_WorkersTerminate == (lg.pc = "signalled") ~> LegacyWorkersReturned

ShutdownComplete == enf.pc = "stopped" \/ (wt.ctx /\ wt.pc = "closed")

\* C4: once shutdown has completed (Enforcer.Stop has returned, or the
\* context has been cancelled and Watcher.Close has returned), the processor
\* handles no further event and performs no chmod.
C4_NoCorrectionAfterShutdown ==
    [][ShutdownComplete => ~(ProcessEvent /\ fs' # fs)]_vars

\* C5: Watcher.Close closes the notification source first, then waits for
\* the notification and polling goroutines, and only then closes the events
\* and errors queues; no send is ever attempted on a closed queue.
C5_CloseOrder ==
    /\ ~wt.panic
    /\ wt.fsClosed => wt.done
    /\ wt.chClosed => /\ wt.fsClosed
                      /\ wt.wg = 0
                      /\ pe.pc = "done"
                      /\ pl.pc = "done"

C5_Witness ==
    /\ wt.chClosed
    /\ events # <<>>
    /\ stat.attempts > 0
    /\ wt.watched # {}

\* C6: shouldProcess returns false for every path whose base name matches
\* at least one exclude pattern, whatever the include list is.
C6_ExcludeAlwaysWins ==
    (call.fn = "shouldProcess" /\ call.done
        /\ AnyMatch(call.Exclude, Base(call.path)))
    => call.result = FALSE

\* A call whose base name matches the same pattern in both lists.
C6_Witness ==
    /\ call.fn = "shouldProcess" /\ call.done
    /\ call.path = <<NameDir, NameATmp>>
    /\ call.Exclude = <<PatStarTmp>>
    /\ call.Include = <<PatStarTmp>>
    /\ call.result = FALSE

\* C7: when no exclude pattern matches the base name, shouldProcess returns
\* true for an empty include list and otherwise exactly when some include
\* pattern matches.
C7_IncludeDecides ==
    (call.fn = "shouldProcess" /\ call.done
        /\ ~AnyMatch(call.Exclude, Base(call.path)))
    => (call.result <=> (Len(call.Include) = 0
                          \/ AnyMatch(call.Include, Base(call.path))))

\* A call no exclude pattern matches, with an include list that does not
\* match either: the result is false.
C7_Witness ==
    /\ call.fn = "shouldProcess" /\ call.done
    /\ call.path = <<NameDir, NameTa>>
    /\ call.Exclude = <<PatStarTmp>>
    /\ call.Include = <<PatStarMp4, PatBad>>
    /\ call.result = FALSE

\* C12: whenever a callback of enforceTree altered its entry (whatever the
\* combination of success and failure of chown and chmod), enforceFile
\* returned changed=true and the pass counted the entry as fixed.
C12_AlteredMeansChanged ==
    [][\A f \in FolderIds :
          (EnforceTreeStep(f) /\ fs'[wk[f].pos] # fs[wk[f].pos])
              => (wk'[f].last.changed /\ wk'[f].fixed = wk[f].fixed + 1)]_vars

\* C13: every mode correction of a tree pass leaves a directory with the
\* folder's directory mode and a regular file with the folder's file mode.
C13_ModeByKind ==
    [][\A f \in FolderIds :
          LET i == wk[f].pos
          IN (EnforceTreeStep(f) /\ Perm(fs'[i].mode) # Perm(fs[i].mode))
                 => Perm(fs'[i].mode) =
                        Perm(IF IsDir(fs[i].mode) THEN Folders[f].DirMode
                             ELSE Folders[f].FileMode)]_vars

\* C14: the Watcher handles its first notification and its first tick only
\* after one full pass over its watch directories.
C14_InitialPassFirst ==
    [][(ProcessEventsReceive \/ PollTick) => wt.swept]_vars

\* The numbers of the notifications in flight, oldest first: the latest one
\* the Processor handled, those in the events channel, the one processEvents
\* is about to send, and those fsnotify has not delivered yet.
SeqsOf(q) == [k \in DOMAIN q |-> q[k].seq]
Numbered(q) == SelectSeq(q, LAMBDA n : n > 0)
Pipeline ==
    Numbered(<<env.handled>> \o SeqsOf(events)
             \o (IF pe.pc = "send" THEN <<pe.ev.seq>> ELSE <<>>)
             \o SeqsOf(raw))

\* C15: the notifications reach the Processor in the order in which fsnotify
\* delivered them: the numbers along the pipeline only increase, so none is
\* overtaken and none appears twice (some may be missing).
C15_OrderPreserved ==
    \A j, k \in DOMAIN Pipeline : j < k => Pipeline[j] < Pipeline[k]

\* Two notifications are queued behind one that the Processor has handled.
C15_Witness ==
    /\ env.handled > 0
    /\ Len(Numbered(SeqsOf(events))) >= 2

\* C16: every event placed on the events channel is handled by the
\* Processor: once the Processor has returned or the process has ended, no
\* event is left in the channel.
C16_NoEventLeftUnhandled ==
    (pr.pc = "done" \/ wt.pc = "exited") => events = <<>>

\* C17: once Stop has called e.cancel(), a walk in progress runs its
\* callback for at most one more entry, and no watchFolder goroutine starts
\* a new enforceTree pass.
C17_WalkStopsAtCancel ==
    [][\A f \in FolderIds :
          enf.cancelled
              => /\ ~(wk[f].late /\ EnforceTreeStep(f))
                 /\ ~EnforcerTick(f)]_vars

\* C18: Stop returns when every worker has exited or when the grace period
\* is over, whichever comes first: once the grace period is over, Stop is
\* able to return.
C18_StopReturnsAfterGrace ==
    (enf.pc = "stopping" /\ enf.expired) => ENABLED EnforcerStopReturn

\* C19: when fsnotify rejects the registration of a watch directory and no
\* other system call fails, Start returns no error: main does not exit, and
\* the processEvents and polling goroutines are started.
C19_RegistrationFailureIsWarning ==
    (fault.add # {} /\ fault.lstat = {} /\ fault.readdir = {} /\ wt.pc # "new")
        => (wt.pc # "fatal" /\ pe.pc # "idle" /\ pl.pc # "idle")

\* C20: a failing stat, directory read, chown or chmod ends neither the
\* process nor a goroutine: main does not exit from Start, and processEvents,
\* the poller and the Processor return only after the shutdown has begun.
C20_NoFatalFilesystemError ==
    fault.add = {}
        => /\ wt.pc # "fatal"
           /\ (pe.pc = "done" \/ pl.pc = "done" \/ pr.pc = "done")
                  => (wt.ctx \/ wt.done)

\* The shutdown has begun: cancel() was called or w.done is closed.
ShutdownBegun == wt.ctx \/ wt.done

\* C21: after a transport error processEvents is back at its select; it
\* returns only when the shutdown has begun or a channel of fsnotify is
\* closed, and the poller returns only when the shutdown has begun: while
\* the program runs with fsnotify's channels closed, the poller is at its
\* select or in a pass.
C21_SourceFailuresAreLocal ==
    /\ pe.pc = "done" => (ShutdownBegun \/ wt.fsClosed)
    /\ pl.pc = "done" => ShutdownBegun
    /\ (wt.pc = "running" /\ wt.fsClosed) => pl.pc \in {"select", "walk"}

\* A transport error was taken, later fsnotify closed its channels and
\* processEvents returned; the poller is in the middle of a pass.
C21_Witness ==
    /\ wt.pc = "running"
    /\ wt.fsClosed
    /\ env.errs = 0
    /\ pe.pc = "done"
    /\ pl.pc = "walk"

\* Directory a of the watch directory's tree is excluded by name.
ExcludedDir(a) ==
    /\ a # cfg.WatchDirs[1].Path
    /\ IsDir(fs[a].mode)
    /\ ShouldExclude(PathOf(a), cfg.WatchDirs[1])

\* C22: no directory registered with fsnotify is excluded by name or lies
\* beneath a directory excluded by name.
C22_ExcludedSubtreeNotWatched ==
    \A i \in wt.watched :
        \A a \in Entries : IsUnder(i, a) => ~ExcludedDir(a)

\* Start has registered the watches: /d/n2 is excluded, the directory
\* beneath it is not excluded by its own name, and /d/n4 is registered.
C22_Witness ==
    /\ wt.pc = "running"
    /\ ExcludedDir(2)
    /\ ~ExcludedDir(3)
    /\ wt.watched = {1, 4}

\* Entry i lies beneath a directory excluded by name.
BeneathExcluded(i) == \E a \in Entries : a # i /\ IsUnder(i, a) /\ ExcludedDir(a)

\* C23: a polling pass neither visits an entry beneath an excluded
\* directory nor sends a POLL_CHECK event for one.
C23_PollSkipsExcludedSubtree ==
    /\ pl.pc = "walk" => ~BeneathExcluded(pl.pos)
    /\ \A k \in DOMAIN events :
          events[k].Operation \in {"POLL_CHECK", "POLL_CHECK_DIR"}
              => ~BeneathExcluded(events[k].Path)

\* enforceTree's callback and enforceFile have both returned.
OverlapDone == lg.step.poll.pc = "done" /\ lg.step.event.pc = "done"

\* C24: when the polling goroutine's callback and the event loop's
\* enforceFile have both worked on an entry, in whatever order their system
\* calls were made, the entry has the target owner, group and mode.
C24_OverlapEndsAtTarget ==
    OverlapDone
        => Compliant(fs[lg.step.entry], Folders[FolderOf(lg.step.entry)])

\* Both have returned, and the FileInfo the poller decided on showed owner
\* and mode off target.
C24_Witness ==
    /\ OverlapDone
    /\ lg.step.poll.info.uid # Folders[FolderOf(lg.step.entry)].UID
    /\ Perm(lg.step.poll.info.mode)
          # Perm(Folders[FolderOf(lg.step.entry)].Mode)

\* The Enforcer has finished its pass over /m, the poller its pass over /w,
\* and the Processor has handled every event of that pass.
TwinPassesDone ==
    /\ wk[1].pc = "select"
    /\ pl.pc = "select"
    /\ wt.swept
    /\ events = <<>>

\* C25: after one pass of each design over equal trees, an entry of /m has
\* the target owner and mode exactly when its copy in /w has them.
C25_SameEffect ==
    TwinPassesDone
        => \A i \in 1..4 :
              Compliant(fs[i], Folders[1])
                  <=> Compliant(fs[i + TwinOffset],
                                TargetOf(TwinShape, i + TwinOffset))

\* The Processor handles a CREATE event for a regular file whose owner and
\* mode are both off target.
HandlesDriftedCreate ==
    /\ ProcessEvent
    /\ LET ev == Head(events)
           t == TargetOf(WatcherShape, ev.Path)
       IN /\ ev.Operation = "CREATE"
          /\ ~IsDir(fs[ev.Path].mode)
          /\ fs[ev.Path].uid # t.UID
          /\ Perm(fs[ev.Path].mode) # Perm(t.Mode)

\* C26: after the Processor has handled a CREATE event for a file whose
\* owner and mode were both off target, the file has the target uid and gid
\* and the target file mode.
C26_CreateIsCorrected ==
    [][HandlesDriftedCreate
          => Compliant(fs'[Head(events).Path],
                       TargetOf(WatcherShape, Head(events).Path))]_vars

\* The configuration file sets poll_interval to 0 and is otherwise loadable.
ZeroIntervalFile ==
    /\ call.fn = "Load"
    /\ call.file.PollInterval = 0
    /\ ~call.wdFails
    /\ \A k \in DOMAIN call.file.WatchDirs : call.file.WatchDirs[k].Path # EmptyPath

\* C27: a configuration with poll_interval 0 is accepted, and once Start has
\* run, the notification loop is running and the polling loop is not.
C27_ZeroIntervalAccepted ==
    (ZeroIntervalFile /\ call.done)
        => /\ call.err = ""
           /\ wt.pc # "fatal"
           /\ wt.pc = "running" => (pe.pc = "select" /\ pl.pc = "idle")

\* What validate leaves behind when it returns nil: absolute paths, and the
\* modes of the file or the defaults "0644" and "0755".
ValidatedDirs ==
    \A k \in DOMAIN call.file.WatchDirs :
        LET in == call.file.WatchDirs[k]
            out == call.cfg.WatchDirs[k]
        IN /\ out.Path.abs
           /\ out.FileMode # <<>>
           /\ out.DirMode # <<>>
           /\ out.FileMode = IF in.FileMode = <<>> THEN <<0, 6, 4, 4>> ELSE in.FileMode
           /\ out.DirMode = IF in.DirMode = <<>> THEN <<0, 7, 5, 5>> ELSE in.DirMode

InvalidFile ==
    \/ call.file.PollInterval <= 0
    \/ \E k \in DOMAIN call.file.WatchDirs : call.file.WatchDirs[k].Path = EmptyPath

\* A relative path cannot be made absolute: os.Getwd fails.
UnresolvablePath ==
    /\ call.wdFails
    /\ \E k \in DOMAIN call.file.WatchDirs : ~call.file.WatchDirs[k].Path.abs

C29_Mode755IsOctal ==
    (call.fn = "parseMode" /\ call.done /\ call.text = <<7, 5, 5>>)
        => /\ ~call.err
           /\ Perm(call.folder.Mode) = OctalValue(<<7, 5, 5>>)
           /\ call.after = OctalValue(<<7, 5, 5>>)

\* C30: when trashGuides is enabled with createStructure and the
\* configuration loads, every generated Trash Guides folder and every listed
\* folder is in the folder list of the loaded configuration.
C30_TrashFoldersLoaded ==
    (/\ call.fn = "Load"
     /\ call.done
     /\ ~call.err
     /\ call.yaml.TrashGuides.Enabled
     /\ call.yaml.TrashGuides.CreateStructure)
        => /\ \A g \in DOMAIN call.generated :
                 \E k \in DOMAIN call.Folders : call.Folders[k] = call.generated[g]
           /\ \A l \in DOMAIN call.yaml.Folders :
                 \E k \in DOMAIN call.Folders :
                     call.Folders[k] = ListedFolder(call.yaml.Folders[l])

\* The labels in the order of their priority, with the bit each stands for.
LabelOrder ==
    <<[bit |-> "Create", label |-> "CREATE"], [bit |-> "Write", label |-> "WRITE"],
      [bit |-> "Remove", label |-> "REMOVE"], [bit |-> "Rename", label |-> "RENAME"],
      [bit |-> "Chmod", label |-> "CHMOD"]>>

PriorityLabel(op) ==
    LET set == {k \in DOMAIN LabelOrder : LabelOrder[k].bit \in op}
    IN IF set = {} THEN "UNKNOWN" ELSE LabelOrder[Min(set)].label

\* Entry i lies in the tree of some configured watch directory.
UnderWatchDir(i) == \E k \in DOMAIN cfg.WatchDirs : IsUnder(i, cfg.WatchDirs[k].Path)

\* processEvents takes a notification: one that matches a watch directory
\* and passes its filter becomes the Event to send, with the path, the watch
\* directory and the label of highest priority; any other is discarded.
ReceiveForwards ==
    ProcessEventsReceive =>
        LET n == Head(raw)
            k == FindWatchDir(PathOf(n.entry))
        IN /\ UnderWatchDir(n.entry) => k # 0
           /\ events' = events
           /\ IF k # 0 /\ ShouldProcess(PathOf(n.entry), cfg.WatchDirs[k])
              THEN /\ pe'.pc = "send"
                   /\ pe'.ev.Path = n.entry
                   /\ pe'.ev.WatchDir = k
                   /\ pe'.ev.Operation = PriorityLabel(n.op)
              ELSE pe' = pe

C32_HandleEventTotalAndQuiet ==
    call.fn = "handleEvent" =>
        /\ ~call.done => ENABLED CallHandleEvent
        /\ (call.done /\ call.ev.Operation \in {"REMOVE", "RENAME", "CHMOD", "UNKNOWN", "MOVE"})
              => (fs = call.pre /\ ~call.chmod)

\* handleEvent has returned from a CHMOD event for a file whose mode is off
\* target.
C32_Witness ==
    /\ call.fn = "handleEvent"
    /\ call.done
    /\ call.ev.Operation = "CHMOD"
    /\ call.ev.Path = 2
    /\ fault = NoFault
    /\ Perm(call.pre[2].mode) # Perm(TargetOf(WatcherShape, 2).Mode)

\* C33: however the calls of Close interleave, no channel is closed twice:
\* done is closed at most once, events and errors are closed at most once,
\* and no call panics.
C33_ClosedOnce ==
    call.fn = "Close" =>
        /\ ~call.panic
        /\ call.closes.done <= 1
        /\ call.closes.queues <= 1

\* C34: once Close has closed the done channel it returns, whatever the
\* notification and polling goroutines are doing, the events queue full and
\* unread or not, the context cancelled or not.
C34_CloseReturns == (wt.pc = "closeFs") ~> (wt.pc = "closed")

\* Close has returned without cancel() while the events queue was full and
\* nobody was reading it.
C34_Witness ==
    /\ wt.pc = "closed"
    /\ ~wt.ctx
    /\ Len(events) = EventsCap
    /\ stat.drops > 0

\* C35 In every tree pass each visited entry is counted in exactly one of
\* fixed, skipped and failed, whatever chown and chmod return.  Here for
\* main.go's enforceTree: what one callback adds to the three counters sums
\* to one.
C35_LegacyCountedOnce ==
    lg.last.by = "enforceTree" =>
        lg.last.counted.fixed + lg.last.counted.skipped
            + lg.last.counted.failed = 1

\* The same for Enforcer.enforceTree, whose counters are kept for the pass:
\* they sum to the number of entries the pass has visited.
C35_EnforcerCountedOnce ==
    \A f \in FolderIds :
        wk[f].fixed + wk[f].skipped + wk[f].failed = Cardinality(wk[f].visited)

\* A callback of main.go's enforceTree whose chown failed has run.
C35_LegacyChownFailed ==
    /\ lg.last.by = "enforceTree"
    /\ "chown" \in lg.last.failed

\* C36 Every Event produced from a notification carries a WatchDir whose
\* directory tree contains the event path, for any order of the configured
\* watch directories: a path under a sibling directory whose name starts with
\* the WatchDir's path is never attributed to that WatchDir.
C36_WatchDirContainsPath ==
    LET sent == {events[k] : k \in DOMAIN events}
                \cup (IF pe.pc = "send" THEN {pe.ev} ELSE {})
    IN \A ev \in sent :
          ev.Operation \notin {"POLL_CHECK", "POLL_CHECK_DIR"}
          => IsUnder(ev.Path, cfg.WatchDirs[ev.WatchDir].Path)

\* A notification for /da/a.m was made an Event while /d is configured
\* before /da.
C36_SiblingEvent ==
    /\ cfg.WatchDirs[1].Path = 1
    /\ \E k \in DOMAIN events : events[k].Path = 6 /\ events[k].Operation = "WRITE"

\* No notification, Event or pending send is left anywhere.
Quiescent ==
    /\ \A f \in FolderIds : lg.notes[f] = <<>>
    /\ raw = <<>>
    /\ events = <<>>
    /\ pe.pc # "send"

\* C37 The program's own corrections never trigger further corrections: with
\* no external change, handling a notification issues no chown and no chmod
\* (main.go's event loop calls nothing, the Processor handling a notification's
\* Event changes nothing and causes no further notification), and the system
\* becomes quiescent.
C37_OwnCorrectionsAreQuiet ==
    /\ [][/\ \A f \in FolderIds :
                LegacyEvent(f) => fs' = fs /\ lg'.last = lg.last
                                  /\ Len(lg'.notes[f]) < Len(lg.notes[f])
          /\ (ProcessEvent /\ Head(events).seq > 0) => fs' = fs /\ raw' = raw]_vars
    /\ <>[]Quiescent

\* main.go has corrected the owner and the mode of /t in a tree pass, and
\* its event loop has taken the notifications of both calls.
C37_Witness ==
    /\ lg.last.by = "enforceTree"
    /\ lg.last.entry = 5
    /\ lg.last.calls = <<"chown", "chmod">>
    /\ lg.last.failed = {}
    /\ 5 \in lg.watched[2]
    /\ lg.notes[2] = <<>>

\* The Processor has handled the Event of a notification caused by its own
\* chmod.
C37_ProcessorSawOwnChmod ==
    /\ env.handled > 0
    /\ Quiescent

\* C38 Every configuration that Load accepts has a strictly positive
\* PollInterval, so the ticker of Enforcer.watchFolder is never created with
\* a zero or negative interval.
C38_AcceptedIntervalPositive ==
    (call.fn = "Load/interval" /\ call.done /\ ~call.err)
        => call.PollInterval > 0 /\ call.ticker # "panic"

\* Load was called with POLL_INTERVAL=-5s and no pollInterval in the file.
C38_NegativeFromEnv ==
    /\ call.fn = "Load/interval"
    /\ call.done
    /\ call.env = [neg |-> TRUE, digits |-> <<5>>, unit |-> "s"]
    /\ call.yaml = EmptyText

\* C39 For a WatchDir with recursive=false neither notifications nor polling
\* produce an Event for an entry inside a subdirectory of the watched path:
\* its Events are for the watched directory itself and its direct children.
C39_NonRecursiveStaysShallow ==
    LET sent == {events[k] : k \in DOMAIN events}
                \cup (IF pe.pc = "send" THEN {pe.ev} ELSE {})
    IN \A ev \in sent :
          LET wd == cfg.WatchDirs[ev.WatchDir] IN
          (~wd.Recursive /\ IsUnder(ev.Path, wd.Path))
          => ev.Path = wd.Path \/ fs[ev.Path].parent = wd.Path

\* A polling pass over the non-recursive /d has queued an Event for
\* /d/a.t/ta.
C39_PolledBelowSubdirectory ==
    \E k \in DOMAIN events :
        /\ events[k].Path = 4
        /\ events[k].Operation = "POLL_CHECK"
        /\ ~cfg.WatchDirs[events[k].WatchDir].Recursive
        /\ cfg.WatchDirs[events[k].WatchDir].Path = 1

\* The created directory and the file in it exist.
GrowDirExists == Len(fs) >= GrowDir
GrowFileExists == Len(fs) >= GrowFile

\* The file in the created directory has the owner and the mode its folder
\* or watch directory asks for.
GrowFileOnTarget ==
    /\ GrowFileExists
    /\ IF cfg = NoConfig THEN Compliant(fs[GrowFile], Folders[2])
       ELSE Perm(fs[GrowFile].mode) = ParseOctal(cfg.WatchDirs[1].FileMode)

\* C40 With recursive watching, a directory created under a watched root
\* after startup is in the watch set once its Create notification has been
\* handled, so a file created in it later is reported and corrected.
C40_CreatedDirectoryIsWatched ==
    /\ [][/\ LegacyCreateInside => /\ GrowDir \in lg.watched[2]
                                   /\ lg'.notes[2] # <<>>
          /\ WatcherCreateInside => /\ GrowDir \in wt.watched
                                    /\ raw' # <<>>]_vars
    /\ GrowFileExists ~> GrowFileOnTarget

\* The same for main.go alone.
C40_LegacyWatchesCreatedDirectory ==
    /\ [][LegacyCreateInside => /\ GrowDir \in lg.watched[2]
                                /\ lg'.notes[2] # <<>>]_vars
    /\ (cfg = NoConfig /\ GrowFileExists) ~> GrowFileOnTarget

\* The Watcher runs, /d/n was created, its CREATE Event was handled by the
\* Processor, and /d/n/f was created afterwards.
C40_FileInUnwatchedDirectory ==
    /\ cfg # NoConfig
    /\ GrowFileExists
    /\ env.handled > 0
    /\ wt.pc = "running"

----------------------------------------------------------------------------
(* Claims about enforceEntry.                                              *)

\* C11: within one enforcement of an entry the ownership change is issued
\* before any mode change, and after a failed ownership change no mode
\* change is issued for that entry; here for main.go's enforceTree and
\* enforceFile.
C11_ChownFirstAndFatal ==
    /\ lg.last.calls \in {<<>>, <<"chown">>, <<"chmod">>, <<"chown", "chmod">>}
    /\ "chown" \in lg.last.failed => lg.last.calls = <<"chown">>

(* Claims about the Enforcer (SpecEnforcer).                               *)

\* The worker's last callback reached enforceFile.
EnforceFileCalled(f) ==
    /\ wk[f].last.entry # 0
    /\ wk[f].last.err \notin {"lstat", "readdir"}

\* The worker's last callback belongs to a pass after its first one.
InLaterPass(f) ==
    /\ wk[f].last.entry \in wk[f].visited
    /\ \/ wk[f].pc = "walk" /\ wk[f].passes >= 1
       \/ wk[f].pc \in {"select", "done"} /\ wk[f].passes >= 2

\* C8: enforceFile on an entry that already has the target owner, group and
\* permission bits issues no chown and no chmod and returns changed=false;
\* a pass over a tree that the previous pass left compliant reports fixed=0.
C8_Idempotent ==
    \A f \in FolderIds :
        /\ (EnforceFileCalled(f) /\ Compliant(wk[f].last.pre, Folders[f]))
           => (wk[f].last.calls = <<>> /\ ~wk[f].last.changed
               /\ wk[f].last.err = "none")
        /\ (wk[f].passes >= 1 /\ wk[f].clean) => wk[f].fixed = 0

\* The second pass over folder 1 is complete: the first pass fixed entries,
\* left the tree compliant, and the second fixed nothing and skipped all four.
C8_Witness ==
    /\ wk[1].pc = "select" /\ wk[1].passes = 2
    /\ wk[1].clean /\ wk[1].prevFixed > 0
    /\ wk[1].fixed = 0 /\ wk[1].skipped = 4
    /\ wk[1].last.calls = <<>> /\ ~wk[1].last.changed

\* C9: one enforceFile call on a non-compliant entry whose chown and chmod
\* succeed leaves the entry with the target owner, group and permission
\* bits and returns changed=true; the next call on it returns changed=false.
C9_ConvergesInOneCall ==
    \A f \in FolderIds :
        /\ (EnforceFileCalled(f) /\ wk[f].last.err = "none"
              /\ ~Compliant(wk[f].last.pre, Folders[f]))
           => (wk[f].last.changed
               /\ Compliant(fs[wk[f].last.entry], Folders[f]))
        /\ (EnforceFileCalled(f) /\ InLaterPass(f)
              /\ wk[f].last.entry \notin (fault.chown \cup fault.chmod))
           => ~wk[f].last.changed

\* Folder 2's root drifted in owner and mode: the first call changed it
\* (chown, then chmod), and the call of the second pass changed nothing.
C9_Witness ==
    /\ wk[2].pc = "select" /\ wk[2].passes = 2
    /\ wk[2].prevFixed = 1
    /\ wk[2].last.entry = 5 /\ ~wk[2].last.changed
    /\ Compliant(fs[5], Folders[2])

\* Exactly one entry of folder f's tree raises an inspection error and no
\* chown or chmod fails.
OneInspectionError(f, e) ==
    /\ e \in TreeOf(f)
    /\ fault.lstat \cup fault.readdir = {e}
    /\ WalkErr(e) # "none"
    /\ fault.chown = {} /\ fault.chmod = {}

PassComplete(f) == wk[f].pc \in {"select", "done"}

\* C10 as stated: whatever entry E raises the inspection error, the pass
\* visits all N entries and reports failed=1 and fixed+skipped=N-1.
C10_AllVisited ==
    \A f \in FolderIds : \A e \in Entries :
        (PassComplete(f) /\ OneInspectionError(f, e))
        => /\ wk[f].visited = TreeOf(f)
           /\ wk[f].failed = 1
           /\ wk[f].fixed + wk[f].skipped = Cardinality(TreeOf(f)) - 1

Below(e) == {i \in Entries : i # e /\ IsUnder(i, e)}

\* C10 amended: the pass visits every entry except those beneath E (all N
\* when E is a file or an empty directory) and reports failed=1 and
\* fixed+skipped = N-1-D, D the number of entries beneath E.
C10_AllButBelowVisited ==
    \A f \in FolderIds : \A e \in Entries :
        (PassComplete(f) /\ OneInspectionError(f, e))
        => /\ wk[f].visited = TreeOf(f) \ Below(e)
           /\ wk[f].failed = 1
           /\ wk[f].fixed + wk[f].skipped
                = Cardinality(TreeOf(f)) - 1 - Cardinality(Below(e))

\* The file /m/d/a.t cannot be inspected: the pass over folder 1 visited
\* all four entries, the file after it included, with one failure.
C10_Witness ==
    /\ PassComplete(1) /\ OneInspectionError(1, 3)
    /\ wk[1].visited = {1, 2, 3, 4}
    /\ wk[1].failed = 1
    /\ wk[1].fixed + wk[1].skipped = 3

====
